-------------------------- MODULE MainLifecycleInv --------------------------
(***************************************************************************)
(* The inductive invariant behind the properties of MainLifecycle.         *)
(***************************************************************************)
EXTENDS MainLifecycle

AfterCall == {"run", "remove", "cancel", "exit"}
AfterConsumer == {"call"} \cup AfterCall

(* What main has done, from the place it is at.                            *)
PlaceInv ==
    /\ phase # "idle" <=> mpc \in AfterCall
    /\ mpc \in {"remove", "cancel", "exit"} => phase = "returned"
    /\ mpc \in {"connect", "configure", "compose", "listen", "consume", "call",
                "run", "remove"} => file = "full"
    /\ mpc \in {"consume"} \cup AfterConsumer => exiter # "none"
    /\ \A r \in StopRequest : stop[r] # "none" => mpc \in AfterConsumer

(* What Run has answered.                                                  *)
RunInv ==
    /\ announced # "none" <=> phase \in {"informed", "returned"}
    /\ exitCode # "none" => phase = "returned"
    /\ exitCode = "Success" => announced = "Completed"
    /\ stoppedFirst => announced # "Completed"

(* Who has cancelled the context, and who is about to.                     *)
CancelInv ==
    /\ early => parentDone
    /\ early /\ phase # "idle" => stoppedFirst
    /\ hpc \in {"check", "publish"} => parentDone
    /\ exiter = "ended" => parentDone

MainInv == PlaceInv /\ RunInv /\ CancelInv /\ UpstreamExplained
=============================================================================
