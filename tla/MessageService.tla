--------------------------- MODULE MessageService ---------------------------
(***************************************************************************)
(* What the per-message methods of GSSContext promise to the two callers,  *)
(* one direction of a context: whatever the network does, a message comes  *)
(* out as it went in.  With sequence detection messages come in order, and *)
(* none is missed without an exception; with replay detection none comes   *)
(* twice; without either anything that was sent may come at any time.      *)
(***************************************************************************)
EXTENDS Naturals, Sequences

CONSTANT Message   \* what may be protected

VARIABLES
  service,   \* the detection the context was established with
  offered,   \* the messages protected, in order
  done,      \* the numbers of those that will not come any more
  taken,     \* the messages that came out
  warned     \* an exception since the last of them?

svars == <<service, offered, done, taken, warned>>

Init ==
  /\ service \in SUBSET {"replay", "sequence"}
  /\ offered = <<>> /\ done = {} /\ taken = <<>> /\ warned = FALSE

Offer ==
  /\ \E m \in Message : offered' = Append(offered, m)
  /\ UNCHANGED <<service, done, taken, warned>>

Take ==
  \E n \in DOMAIN offered :
    /\ n \notin done
    /\ "sequence" \in service => 1 .. n - 1 \subseteq done
    /\ done' = IF service = {} THEN done ELSE done \cup {n}
    /\ taken' = Append(taken, offered[n]) /\ warned' = FALSE
    /\ UNCHANGED <<service, offered>>

Warn ==
  /\ warned' = TRUE
  /\ \E lost \in SUBSET DOMAIN offered :
        /\ service = {} => lost = {}
        /\ done' = done \cup lost
  /\ UNCHANGED <<service, offered, taken>>

Next == Offer \/ Take \/ Warn

Spec == Init /\ [][Next]_svars
=============================================================================
