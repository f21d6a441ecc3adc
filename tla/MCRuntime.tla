----------------------------- MODULE MCRuntime ------------------------------
(* TLC instance of the process, with providers that connect and a          *)
(* shutdown, and of four downloads over a budget of three bytes, each      *)
(* played by itself.                                                       *)
EXTENDS Lifecycle, Downloads, TLC

CONSTANTS honest, longer, silent, over  \* downloads

Limits == (honest :> 1) @@ (longer :> 3) @@ (silent :> 1) @@ (over :> 2)

Headers == (honest :> 1) @@ (longer :> 1) @@ (silent :> 0) @@ (over :> 2)

Lengths == (honest :> 1) @@ (longer :> 2) @@ (silent :> 1) @@ (over :> 3)

VARIABLE part  \* what is played

RuntimeInit ==
  /\ part \in {"process", "downloads"}
  /\ Init /\ DownloadsInit
  /\ part # "process" => scene = Together

ProcessStep == part = "process" /\ Next /\ UNCHANGED <<part, downloadsVars>>
DownloadStep(d) == part = "downloads" /\ Proceed(d) /\ UNCHANGED <<part, vars>>
AbortStep(d) == part = "downloads" /\ Abort(d) /\ UNCHANGED <<part, vars>>

RuntimeNext ==
  \/ ProcessStep
  \/ \E d \in Downloads : DownloadStep(d) \/ AbortStep(d)

RuntimeSpec ==
  /\ RuntimeInit /\ [][RuntimeNext]_<<part, vars, downloadsVars>>
  /\ Fairness
  /\ \A d \in Downloads : WF_downloadsVars(DownloadStep(d))
=============================================================================
