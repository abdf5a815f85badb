----------------------------- MODULE MCTutorRows ------------------------------
(***************************************************************************)
(* Services of the tutor whose rows are changed by overlapping             *)
(* transactions, each checked for safety on its own: part is the service   *)
(* that a behaviour exercises, and the others keep their initial states.   *)
(* The states of the run are the union of the services' and not their      *)
(* product.  What one of them does to the rows of another is not shown:    *)
(* see the README for the rows they have in common.                        *)
(***************************************************************************)
EXTENDS ObjectLifecycle, Wallet, VaultMigration, QuestionBank, CandidateReview,
        Classrooms, TLC

CONSTANTS o1, r1,            \* an order and the trade number the mock makes of it
          v1, k1, k2, k3     \* a question version, and keys; k1, k2 have old attempts

VARIABLE part

MCMockTrade == o1 :> r1
MCLegacy == {<<v1, k1>>, <<v1, k2>>}

MCRefs == {"loss", "section_loss", "chapter", "method", "absent"}
MCStrip == [r \in MCRefs \cup {"null"} |-> IF r = "section_loss" THEN "loss" ELSE "null"]
MCTitleOf == [r \in MCRefs |-> IF r = "chapter" THEN "chapter" ELSE "loss"]

Proposed(k, p) == [key |-> k, parent |-> p]

\* Two chunks, one of which names a parent of the other without its prefix,
\* and a parent that is nowhere; and a note that is its own parent by alias.
MCAnswers == {
    << <<Proposed("chapter", "null"), Proposed("section_loss", "absent")>>,
       <<Proposed("method", "loss")>> >>,
    << <<Proposed("section_loss", "loss")>> >> }

\* Keys with a legacy attempt are alike.
SameKeys == Permutations({k1, k2})

Parts == {"objects", "wallet", "migration", "questions", "candidates", "classroom"}

rowsVars == <<vars, walletVars, migVars, qbVars, crVars, roomVars, part>>

RowsInit ==
    /\ part \in Parts
    /\ Init /\ WalletInit /\ MigInit /\ QbInit /\ CrInit /\ RoomInit

Others(own) ==
    /\ UNCHANGED part
    /\ own # "objects" => UNCHANGED vars
    /\ own # "wallet" => UNCHANGED walletVars
    /\ own # "migration" => UNCHANGED migVars
    /\ own # "questions" => UNCHANGED qbVars
    /\ own # "candidates" => UNCHANGED crVars
    /\ own # "classroom" => UNCHANGED roomVars

RowsNext ==
    \/ part = "objects" /\ Next /\ Others("objects")
    \/ part = "wallet" /\ WalletNext /\ Others("wallet")
    \/ part = "migration" /\ MigNext /\ Others("migration")
    \/ part = "questions" /\ QbNext /\ Others("questions")
    \/ part = "candidates" /\ CrNext /\ Others("candidates")
    \/ part = "classroom" /\ RoomNext /\ Others("classroom")

RowsSpec == RowsInit /\ [][RowsNext]_rowsVars

\* The rows of the service that takes steps; all others are as they were.
RowsTypeOK ==
    CASE part = "objects" -> TypeOK
      [] part = "wallet" -> WalletTypeOK
      [] part = "migration" -> MigTypeOK
      [] part = "questions" -> QbTypeOK
      [] part = "candidates" -> CrTypeOK
      [] part = "classroom" -> RoomTypeOK
=============================================================================
