--------------------------- MODULE MCTutorServices ---------------------------
(***************************************************************************)
(* Services of the tutor in which something has to happen in the end, each *)
(* checked on its own: part is the service that a behaviour exercises, and *)
(* the others keep their initial states, in which nothing of them is under *)
(* way.  The states of the run are the union of the services' and not      *)
(* their product, and nothing is shown of two of them side by side.        *)
(***************************************************************************)
EXTENDS PaymentCallbacks, VaultFiles, ChangeSets, OcrCalls

VARIABLE part

MCPathOrder == <<"a", "b">>

Parts == {"payments", "vault", "changes", "ocr"}

servicesVars == <<payVars, vaultVars, csVars, ocrVars, part>>

\* The vault has two initial states; the other services see one of them.
ServicesInit ==
    /\ part \in Parts
    /\ PayInit /\ VaultInit /\ CsInit /\ OcrInit
    /\ part # "vault" => \A p \in Paths : disk[p] = Gone

Others(own) ==
    /\ UNCHANGED part
    /\ own # "payments" => UNCHANGED payVars
    /\ own # "vault" => UNCHANGED vaultVars
    /\ own # "changes" => UNCHANGED csVars
    /\ own # "ocr" => UNCHANGED ocrVars

ServicesNext ==
    \/ part = "payments" /\ PayNext /\ Others("payments")
    \/ part = "vault" /\ VaultNext /\ Others("vault")
    \/ part = "changes" /\ CsNext /\ Others("changes")
    \/ part = "ocr" /\ OcrNext /\ Others("ocr")

\* PayFairness, VaultFairness, CsFairness and OcrFairness, each for its own service.
Payments(A) == part = "payments" /\ A
Vault(A) == part = "vault" /\ A
Changes(A) == part = "changes" /\ A
Ocr(A) == part = "ocr" /\ A

ServicesFairness ==
    /\ WF_payVars(Payments(PayFiveSeconds))
    /\ \A c \in PayCalls : WF_payVars(Payments(PayCallStep(c)))
    /\ WF_vcall(Vault(\E a \in VaultCalls : VaultCallStep(a)))
    /\ WF_scan(Vault(ScanStep))
    /\ WF_csVars(Changes(CsJobStep))
    /\ WF_ocrVars(Ocr(ParentStep)) /\ WF_ocrVars(Ocr(CallIsLate))
    /\ WF_ocrVars(Ocr(ReaderStep)) /\ WF_ocrVars(Ocr(WriterStep))

ServicesSpec == ServicesInit /\ [][ServicesNext]_servicesVars /\ ServicesFairness

\* The rows of the service that takes steps; all others are as they were.
ServicesTypeOK ==
    CASE part = "payments" -> PayTypeOK
      [] part = "vault" -> VaultTypeOK
      [] part = "changes" -> CsTypeOK
      [] part = "ocr" -> OcrTypeOK
=============================================================================
