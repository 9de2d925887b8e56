----------------------------- MODULE AxiMemory -----------------------------
(***************************************************************************)
(* What a memory promises the master of its bus, whatever the handshakes:  *)
(* one write and one read are served at a time, independently.  A write    *)
(* that was accepted stores the beats the master offers, from the address  *)
(* the master asked for on, and is answered before it is over.  A read     *)
(* returns as many beats as were asked for, each what the memory holds at  *)
(* its address when the beat is offered.                                   *)
(***************************************************************************)
EXTENDS Integers, Sequences

VARIABLES
  core,   \* the master's requests: aw and ar, and the beats w to be written
  mem,    \* [addresses -> data]
  write,  \* stage of the write under way, and the address of its next beat
  read    \* stage of the read under way, address of the beat on offer or to be
          \* offered, beats left after it, and the beat

vars == <<core, mem, write, read>>

Init == write.stage = "idle" /\ read.stage = "idle"

StoreBeat ==
  /\ write.stage = "data" /\ core.w # <<>>
  /\ mem' = [mem EXCEPT ![write.addr] = Head(core.w)]
  /\ IF Len(core.w) > 1
     THEN write' = [stage |-> "data", addr |-> write.addr + 1]
     ELSE write'.stage \in {"stored", "answering"}

WriteStep ==
  \/ UNCHANGED <<mem, write>>
  \/ /\ write.stage = "idle"
     /\ write' = [stage |-> "data", addr |-> core.aw.addr]
     /\ UNCHANGED mem
  \/ StoreBeat
  \/ /\ write.stage = "stored" /\ write'.stage = "answering"
     /\ UNCHANGED mem
  \/ /\ write.stage = "answering" /\ write'.stage = "idle"
     /\ UNCHANGED mem

\* A beat stored at the same moment may be seen already.
Offer(addr, left) ==
  \E d \in {mem[addr], mem'[addr]} :
    read' = [stage |-> "offered", addr |-> addr, left |-> left, beat |-> d]

ReadStep ==
  \/ UNCHANGED read
  \/ /\ read.stage = "idle"
     /\ \/ read' = [stage |-> "accepted", addr |-> core.ar.addr,
                    left |-> core.ar.len]
        \/ Offer(core.ar.addr, core.ar.len)
  \/ read.stage = "accepted" /\ Offer(read.addr, read.left)
  \/ /\ read.stage = "offered"
     /\ IF read.left > 0 THEN Offer(read.addr + 1, read.left - 1)
                         ELSE read'.stage = "idle"

Next == WriteStep /\ ReadStep

Spec == Init /\ [][Next]_vars
=============================================================================
