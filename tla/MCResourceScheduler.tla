------------------------ MODULE MCResourceScheduler ------------------------
(* A small instance of ResourceScheduler for TLC.                          *)
EXTENDS ResourceScheduler, TLC

CONSTANTS scan, chat, model, index

Of(mem, cpu, io, gpu) == [mem |-> mem, cpu |-> cpu, io |-> io, gpu |-> gpu]

\* A scan file, a chat model, a second model, an index build.
Mixed == (scan :> Of(1, 1, 0, 0) @@ chat :> Of(14, 1, 1, 2)
          @@ model :> Of(14, 1, 1, 1) @@ index :> Of(2, 1, 1, 0))
=============================================================================
