----------------------------- MODULE MCReceiver -----------------------------
EXTENDS Receiver

\* Append, chunk, append: both transitions between the two receivers.
SizeAppendChunkAppend == <<2, 3, 2>>
SizeChunkAppend       == <<3, 2>>
=============================================================================
