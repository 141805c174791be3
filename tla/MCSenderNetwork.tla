-------------------------- MODULE MCSenderNetwork --------------------------
EXTENDS SenderNetwork

Request(kind, file, seq, end, bytes) ==
  [kind |-> kind, file |-> file, seq |-> seq, end |-> end, chunk |-> 0, bytes |-> bytes]
Beat(file, next, offset, chunks, window) ==
  [file |-> file, next |-> next, offset |-> offset, durable |-> 0,
   chunks |-> chunks, window |-> window]

\* A CHUNK of one file and a DATA of another; heartbeats that say nothing new but
\* that the window has shrunk to one frame, that the chunk is there, that the
\* file is complete and that the data is written.
MixedRequests == {Request("CHUNK", "big", 1, 0, 2), Request("DATA", "log", 1, 2, 2)}
MixedBeats == {Beat("big", 1, 0, {}, 2), Beat("big", 2, 0, {}, 4),
               Beat("big", 1, 0, {[file |-> "big", seq |-> 1, chunk |-> 0]}, 4),
               Beat("log", 1, 2, {}, 4)}
=============================================================================
