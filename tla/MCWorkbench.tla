----------------------------- MODULE MCWorkbench -----------------------------
EXTENDS Workbench, TLC

CONSTANTS d1, d2, f1, f2

\* One file with a credential, or two files of which one holds a credential.
TwoWorkspaces ==
    {d1 :> (f1 :> 2 @@ f2 :> NoFile) @@ d2 :> (f1 :> 1 @@ f2 :> NoFile),
     d1 :> (f1 :> 1 @@ f2 :> 2) @@ d2 :> (f1 :> NoFile @@ f2 :> 1)}
=============================================================================
