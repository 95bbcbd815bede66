------------------------------ MODULE Clients ------------------------------
(***************************************************************************)
(* A browser tab: the pages that record something (Forms) or the support   *)
(* pages (SupportPages) over one query cache.                              *)
(***************************************************************************)
EXTENDS Forms, SupportPages

clientVars == <<formsVars, pageVars>>

\* The gate matters to the support pages only.
ClientsInit ==
    /\ PagesInit
    /\ \/ FormsInit /\ gate = NoGate
       \/ /\ area = "admin" /\ tab = BlankForm /\ CacheInit
          /\ NothingRecorded

ClientsNext ==
    \/ area # "admin" /\ FormsNext /\ UNCHANGED pageVars
    \/ area = "admin" /\ PagesNext /\ UNCHANGED formVars

ClientsSpec == ClientsInit /\ [][ClientsNext]_clientVars

=============================================================================
