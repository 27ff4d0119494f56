---------------------------- MODULE FaceContract ----------------------------
(***************************************************************************)
(* What the faces of a process promise the programs over them, for each    *)
(* face alone: none (not constructed), down, listening (up, with its next  *)
(* receive or accept on its way) or deaf (up, with nothing that will ever  *)
(* read its socket).  A face goes deaf only in a step that leaves a post   *)
(* refused, is not heard again until it has been down, and one face's fate *)
(* never moves with another's, but for the accept, in which a slave face   *)
(* appears while its server may go deaf.                                   *)
(***************************************************************************)
CONSTANTS
  Face,   \* the face objects
  Slave   \* those of them that live as long as their connection

VARIABLES
  status,  \* what each face is
  refused  \* the message queue has refused a post

contract == <<status, refused>>

Init == status = [f \in Face |-> "none"] /\ refused = FALSE

Becomes(f, s) == status' = [status EXCEPT ![f] = s]

\* The application constructs a face; the result of its up is not looked at.
Construct(f) ==
  /\ f \notin Slave /\ status[f] = "none"
  /\ Becomes(f, "listening") \/ Becomes(f, "down")

Up(f) == status[f] = "down" /\ Becomes(f, "listening")

\* A down by the application, an error, or the end of the connection.
Down(f) ==
  /\ f \notin Slave /\ status[f] \in {"listening", "deaf"}
  /\ Becomes(f, "down")

Destroy(f) == status[f] # "none" /\ Becomes(f, "none")

Deafen(f) ==
  /\ status[f] = "listening"
  /\ refused'
  /\ Becomes(f, "deaf")

\* A server accepts; it goes on listening or its own next accept is refused.
Accept(f, s) ==
  /\ status[f] = "listening" /\ status[s] = "none"
  /\ \/ Becomes(s, "listening")
     \/ /\ refused'
        /\ status' = [status EXCEPT ![s] = "listening", ![f] = "deaf"]

Next ==
  /\ refused => refused'
  /\ \/ UNCHANGED status
     \/ \E f \in Face : Construct(f) \/ Up(f) \/ Down(f) \/ Destroy(f) \/ Deafen(f)
     \/ \E f \in Face \ Slave, s \in Slave : Accept(f, s)

Spec == Init /\ [][Next]_contract
=============================================================================
