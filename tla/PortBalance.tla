---------------------------- MODULE PortBalance ----------------------------
(***************************************************************************)
(* How main shares the ports among the worker threads: balance_ports and   *)
(* the loop of chunks_balanced.                                            *)
(*                                                                         *)
(* With --bind-all every thread is given every port.  Otherwise the list   *)
(* of ports is repeated when there are at least twice as many threads, and *)
(* cut into one chunk per thread, the first ones longer by one.            *)
(***************************************************************************)
EXTENDS Integers, FiniteSets

CONSTANT Scenarios  \* the command lines to explore

(***************************************************************************)
(* -p gives at least one port (Ports::from_str refuses none); -t may be 0. *)
(***************************************************************************)
ASSUME BalanceAssumption ==
  \A s \in Scenarios :
    s.ports \in Nat \ {0} /\ s.threads \in Nat /\ s.bindAll \in BOOLEAN

VARIABLES
  conf,    \* the command line
  pc,      \* "expand", "clone", "chunk", "done" or "panic"
  len,     \* length of the (repeated) list; its element e is port e % ports
  i,       \* chunks made
  offset,  \* where the next chunk starts
  chunks   \* the result: first element and size of each thread's chunk

balanceVars == <<conf, pc, len, i, offset, chunks>>

Base      == len \div conf.threads
Remainder == len % conf.threads

BalanceTypeOK ==
  /\ conf \in Scenarios
  /\ pc \in {"expand", "clone", "chunk", "done", "panic"}
  /\ len \in Nat /\ i \in 0..conf.threads /\ offset \in Nat
  /\ chunks \in [0..(i - 1) -> [from : Nat, size : Nat]]

BalanceInit ==
  /\ conf \in Scenarios
  /\ pc = IF conf.bindAll THEN "clone" ELSE "expand"
  /\ len = conf.ports
  /\ i = 0 /\ offset = 0
  /\ chunks = [t \in {} |-> [from |-> 0, size |-> 0]]

Push(from, size) ==
  chunks' = [t \in 0..i |-> IF t = i THEN [from |-> from, size |-> size]
                            ELSE chunks[t]]

(***************************************************************************)
(* --bind-all: result.push(ports.clone()), once per thread.                *)
(***************************************************************************)
CloneAll ==
  /\ pc = "clone"
  /\ i < conf.threads
  /\ Push(0, len)
  /\ i' = i + 1
  /\ UNCHANGED <<conf, pc, len, offset>>

(***************************************************************************)
(* ports.repeat(mul), then len / chunks, which panics without threads.     *)
(***************************************************************************)
Repeated ==
  LET mul == conf.threads \div conf.ports
  IN  IF mul > 1 THEN mul * conf.ports ELSE conf.ports

Expand ==
  /\ pc = "expand"
  /\ len' = Repeated
  /\ pc' = IF conf.threads = 0 THEN "panic" ELSE "chunk"
  /\ UNCHANGED <<conf, i, offset, chunks>>

(* Mutants of ChunkSize: one long chunk too many; every chunk as long as   *)
(* what is left allows.                                                    *)
ChunkSizeOneMore == Base + (IF i <= Remainder THEN 1 ELSE 0)
ChunkSizeCeiling == IF offset + Base + 1 <= len THEN Base + 1 ELSE len - offset

(***************************************************************************)
(* &slice[offset..offset + size]; out of bounds, it panics.                *)
(***************************************************************************)
ChunkSize == Base + (IF i < Remainder THEN 1 ELSE 0)

(* Mutant of PushChunk: the offset forgets that a chunk was longer.        *)
PushChunkOverlapping ==
  /\ pc = "chunk"
  /\ i < conf.threads
  /\ Push(offset, ChunkSize)
  /\ offset' = offset + Base
  /\ i' = i + 1
  /\ UNCHANGED <<conf, pc, len>>

PushChunk ==
  /\ pc = "chunk"
  /\ i < conf.threads
  /\ IF offset + ChunkSize <= len
       THEN /\ Push(offset, ChunkSize)
            /\ offset' = offset + ChunkSize
            /\ i' = i + 1
            /\ pc' = pc
       ELSE /\ pc' = "panic"
            /\ UNCHANGED <<chunks, offset, i>>
  /\ UNCHANGED <<conf, len>>

Shared ==
  /\ pc \in {"clone", "chunk"}
  /\ i = conf.threads
  /\ pc' = "done"
  /\ UNCHANGED <<conf, len, i, offset, chunks>>

Balance == CloneAll \/ Expand \/ PushChunk \/ Shared

BalanceSpec == BalanceInit /\ [][Balance]_balanceVars
-----------------------------------------------------------------------------
(***************************************************************************)
(* Properties.                                                             *)
(***************************************************************************)
Elements(t) == chunks[t].from..(chunks[t].from + chunks[t].size - 1)
PortsOf(t)  == {e % conf.ports : e \in Elements(t)}
Threads     == 0..(conf.threads - 1)
Idle        == {t \in Threads : chunks[t].size = 0}

(***************************************************************************)
(* No slice is out of bounds, for any number of ports and of threads but 0.*)
(***************************************************************************)
NeverPanics == conf.threads > 0 => pc # "panic"

(***************************************************************************)
(* No port is left without a thread: every element of the list is in a     *)
(* chunk, and in one only.                                                 *)
(***************************************************************************)
EveryElementOnce ==
  pc = "done" /\ ~conf.bindAll =>
    \A e \in 0..(len - 1) :
      /\ \E t \in Threads : e \in Elements(t)
      /\ \A t, u \in Threads : e \in Elements(t) /\ e \in Elements(u) => t = u

(***************************************************************************)
(* Two threads never differ by more than one port, and no thread is given  *)
(* the same port twice, although the list repeats.                         *)
(***************************************************************************)
Fair ==
  pc = "done" =>
    /\ \A t, u \in Threads : chunks[t].size <= chunks[u].size + 1
    /\ \A t \in Threads : \A e, f \in Elements(t) :
         e % conf.ports = f % conf.ports => e = f

(***************************************************************************)
(* Threads are left without a port only when there are more of them than   *)
(* ports, and then they are fewer than the ports.                          *)
(***************************************************************************)
FewIdle ==
  pc = "done" =>
    /\ Idle # {} => conf.ports < conf.threads
    /\ Cardinality(Idle) < conf.ports

(***************************************************************************)
(* The two together: as even as the repeated list allows.                  *)
(***************************************************************************)
EvenlyShared == Fair /\ FewIdle
=============================================================================
