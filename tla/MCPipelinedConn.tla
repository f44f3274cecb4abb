-------------------------- MODULE MCPipelinedConn --------------------------
(***************************************************************************)
(* Small connections for TLC.  The sizes keep the proportions of the code: *)
(* the initial capacity is twice the spare room (8192 and 4096) and the    *)
(* compaction threshold equals it.                                         *)
(***************************************************************************)
EXTENDS PipelinedConn, Sequences

Stream(b, wf) == [count |-> Len(b), wellFormed |-> wf,
                  bounds |-> [i \in 0..Len(b) |-> IF i = 0 THEN 0 ELSE b[i]]]

Handled(s, rt, d, m) ==
  [runtime |-> rt, count |-> s.count, bounds |-> s.bounds,
   wellFormed |-> s.wellFormed, delay |-> d, meter |-> m, builds |-> TRUE]

(* Three requests that fit the buffer and are cut anywhere.                *)
Short == Stream(<<2, 5, 8>>, 1..3)
(* A small request, then one larger than the initial capacity.             *)
Large == Stream(<<2, 10>>, 1..2)
(* Three bytes dead when a large request is still incomplete: compaction.  *)
Dead  == Stream(<<3, 8, 10>>, 1..3)
(* The second request is malformed.                                        *)
Bad   == Stream(<<2, 4, 6>>, {1, 3})

WellFormedScenarios ==
  {Handled(s, rt, FALSE, TRUE) : s \in {Short, Dead}, rt \in Runtimes}
    \cup {Handled(Large, rt, TRUE, FALSE) : rt \in {"glommio", "compio"}}

MalformedScenarios == {Handled(Bad, rt, FALSE, TRUE) : rt \in Runtimes}

(* Enough dead bytes, over and over, to outgrow the bound if ever kept.    *)
Long == Stream(<<6, 12, 18>>, 1..3)
LongScenarios == {Handled(Long, rt, FALSE, FALSE) : rt \in {"glommio", "monoio"}}

(* A configured header that makes the response impossible to build.        *)
NoResponse == [Handled(Short, "monoio", FALSE, TRUE) EXCEPT !.builds = FALSE]

AllScenarios ==
  WellFormedScenarios \cup LongScenarios \cup MalformedScenarios
    \cup {NoResponse}
=============================================================================
