----------------------------- MODULE RngService -----------------------------
(***************************************************************************)
(* What the generator of bee2 promises to its callers (rng.h), free of     *)
(* locks and of the ways the promise is kept: clients hold references to   *)
(* one shared stream of octets, every octet of it goes to one client at    *)
(* most, the stream can be replaced by a fresh one, and it disappears with *)
(* the last reference.                                                     *)
(***************************************************************************)
EXTENDS Naturals, FiniteSets

CONSTANTS
  Clients,     \* who may call the generator
  RefIds,      \* names of the references one client holds at a time
  NoStream     \* the stream of a generator that does not exist

VARIABLES
  refs,        \* references held, a set of pairs <<client, name>>
  stream,      \* the stream octets are taken from
  next,        \* the place of the next octet of the stream
  given        \* octets delivered, as pairs <<stream, place>>

serviceVars == <<refs, stream, next, given>>

Init ==
  /\ refs = {}
  /\ stream = NoStream
  /\ next = 0
  /\ given = {}

Holds(c) == \E i \in RefIds : <<c, i>> \in refs

(* A stream nobody has been given an octet of replaces the current one.    *)
Fresh ==
  /\ stream' \notin {stream, NoStream} \cup {g[1] : g \in given}
  /\ next' = 0

(* The first reference brings the stream to life.                          *)
Open(c) ==
  /\ refs = {}
  /\ \E i \in RefIds : refs' = {<<c, i>>}
  /\ Fresh
  /\ UNCHANGED given

(* A further reference; octets of the stream may be skipped on the way.    *)
Share(c) ==
  /\ refs # {}
  /\ \E i \in RefIds : <<c, i>> \notin refs /\ refs' = refs \cup {<<c, i>>}
  /\ UNCHANGED <<stream, next, given>>

(* Octets of the stream are used up without being delivered.               *)
Skip ==
  /\ stream # NoStream
  /\ next' > next
  /\ UNCHANGED <<refs, stream, given>>

(* The next octets of the stream are delivered to one client.              *)
Deliver(c) ==
  /\ Holds(c)
  /\ next' > next
  /\ given' = given \cup {<<stream, p>> : p \in next .. next' - 1}
  /\ UNCHANGED <<refs, stream>>

(* A client replaces the stream by a fresh one.                            *)
Renew(c) ==
  /\ Holds(c)
  /\ Fresh
  /\ UNCHANGED <<refs, given>>

(* A client gives a reference back; the last one ends the stream.          *)
Release(c) ==
  /\ \E i \in RefIds : <<c, i>> \in refs /\ refs' = refs \ {<<c, i>>}
  /\ IF refs' = {}
       THEN stream' = NoStream /\ next' = 0
       ELSE UNCHANGED <<stream, next>>
  /\ UNCHANGED given

(* The program ends: everything left over is destroyed.                    *)
Shutdown ==
  /\ stream' = NoStream /\ next' = 0
  /\ refs' = {}
  /\ UNCHANGED given

Next ==
  \/ \E c \in Clients : Open(c) \/ Share(c) \/ Deliver(c) \/ Renew(c) \/ Release(c)
  \/ Skip
  \/ Shutdown

Spec == Init /\ [][Next]_serviceVars
=============================================================================
