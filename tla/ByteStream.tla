----------------------------- MODULE ByteStream -----------------------------
(***************************************************************************)
(* What an I/O queue promises: a bounded stream of bytes. Bytes leave in   *)
(* the order they came in, each exactly once; a byte is refused only by a  *)
(* full stream and a reader is sent away only by an empty one.             *)
(***************************************************************************)
EXTENDS Sequences, Naturals

CONSTANTS Bytes, Size

VARIABLES
    content,    \* the bytes that are in the stream
    said        \* what the step has given: a byte, "FULL", "EMPTY" or "-"

StreamInit == content = <<>> /\ said = "-"

Put ==
    /\ Len(content) < Size
    /\ \E b \in Bytes : content' = Append(content, b)
    /\ said' = "-"

Get ==
    /\ content # <<>>
    /\ said' = Head(content)
    /\ content' = Tail(content)

Refuse ==
    /\ \/ Len(content) = Size /\ said' = "FULL"
       \/ content = <<>> /\ said' = "EMPTY"
    /\ UNCHANGED content

Clear == content' = <<>> /\ said' = "-"

Quiet == said' = "-" /\ UNCHANGED content

StreamNext == Put \/ Get \/ Refuse \/ Clear \/ Quiet

StreamSpec == StreamInit /\ [][StreamNext]_<<content, said>>
============================================================================
