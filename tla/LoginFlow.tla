----------------------------- MODULE LoginFlow -----------------------------
(***************************************************************************)
(* What a simulated session promises (spec 4.1 and 7): each user runs the  *)
(* flow Start -> TokensExtracted -> TicketObtained -> Validated ->         *)
(* LoggedOut and may then begin the next flow; a missing token, a missing *)
(* ticket, an unexpected status or a content mismatch moves the flow to    *)
(* Aborted, which is terminal: no later request is made for that session. *)
(* The spec's CredentialsSubmitted is the POST in flight; the scripts read *)
(* its reply in the same step that sends it, so it is not a state here.   *)
(***************************************************************************)
CONSTANT Users

VARIABLE flow

States == {"Start", "TokensExtracted", "TicketObtained",
           "Validated", "LoggedOut", "Aborted"}

TypeOK == flow \in [Users -> States]

Init == flow = [u \in Users |-> "Start"]

Step(u, from, to) ==
  /\ flow[u] \in from
  /\ flow' = [flow EXCEPT ![u] = to]

Initiate(u)  == \E to \in {"TokensExtracted", "Aborted"} :
                  Step(u, {"Start", "LoggedOut"}, to)
Submit(u)    == \E to \in {"TicketObtained", "Aborted"} :
                  Step(u, {"TokensExtracted"}, to)
Validate(u)  == \E to \in {"Validated", "Aborted"} :
                  Step(u, {"TicketObtained"}, to)
Terminate(u) == Step(u, {"Validated"}, "LoggedOut")

Next == \E u \in Users : Initiate(u) \/ Submit(u) \/ Validate(u) \/ Terminate(u)

Spec == Init /\ [][Next]_flow

=============================================================================
