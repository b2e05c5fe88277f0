-------------------------------- MODULE Serde --------------------------------
(***************************************************************************)
(* The client library as a whole: the cache (SchemaCache), the references  *)
(* its registry client resolves (Sources), and the frames its serdes write *)
(* and read (Wire).  The pure parts are checked in the initial states,     *)
(* over all small inputs.                                                  *)
(***************************************************************************)
EXTENDS SchemaCache, Sources, Wire

CONSTANTS
    Files,          \* Protobuf files: sequences of [name, nested] messages
    RefGraphs,      \* reference graphs: names to sequences of names
    MaxDepth        \* MAX_REFERENCE_DEPTH

Start == reg = << >> /\ node = "primary" /\ mode = "AutoRegister" /\ faults = 0

Bytes == 0..(2 * Base - 1)
ByteStrings == UNION {[1..n -> Bytes] : n \in 0..(Groups + 1)}
Numbers == {UnZigZag(z) : z \in 0..((Top + 1) * Pow(Groups - 1) - 1)}

(* Frames go both ways.  Every number has one encoding and every accepted  *)
(* string is that of one number: what read_varint takes off is what        *)
(* put_varint would write, at the widest numbers and strings cut short     *)
(* included (wire.rs).  A Protobuf frame leads its reader to the message   *)
(* it was written as: the index path of a message survives the frame, with *)
(* its one-byte form, and walks back to the message (protobuf.rs,          *)
(* validate.rs).                                                           *)
FramesRoundTrip ==
    Start => /\ \A v \in Numbers : read_varint(put_varint(v)) = [ok |-> TRUE, value |-> v, rest |-> << >>]
             /\ \A bytes \in ByteStrings :
                   LET r == read_varint(bytes)
                   IN  r.ok => r.value \in Numbers /\ bytes = put_varint(r.value) \o r.rest
             /\ \A file \in Files : \A name \in FullNames(file) : \A body \in {<< >>, <<0>>, <<1, 0>>} :
                   LET f == decode_protobuf(encode_protobuf(7, message_index(file, << >>, name), body))
                   IN  /\ f.ok /\ f.id = 7 /\ f.body = body
                       /\ message_at(file, f.indices) = name

RECURSIVE Reachable(_, _)
Reachable(names, refs) ==
    LET more == names \cup UNION {{refs[n][i] : i \in DOMAIN refs[n]} : n \in names}
    IN  IF more = names THEN names ELSE Reachable(more, refs)
Below(n, refs) == Reachable({refs[n][i] : i \in DOMAIN refs[n]}, refs)

(* The sources of a schema's references come each once and after those     *)
(* they refer to, all that are reachable do, and a cycle is an error       *)
(* (registry/mod.rs, resolve_reference_sources: dependency-first order).   *)
ReferencesInOrder ==
    Start => \A refs \in RefGraphs : \A root \in DOMAIN refs :
                LET r == resolve_reference_sources(refs[root], refs, << >>, {}, 0, MaxDepth)
                    at(n) == CHOOSE i \in DOMAIN r.order : r.order[i] = n
                    reach == Below(root, refs)
                IN  /\ r.ok => /\ {r.order[i] : i \in DOMAIN r.order} = reach
                               /\ Len(r.order) = Cardinality(reach)
                               /\ \A n \in reach : \A m \in Below(n, refs) : at(m) < at(n)
                    /\ (\E n \in reach : n \in Below(n, refs)) => ~r.ok
                    /\ Cardinality(reach) < MaxDepth /\ ~(\E n \in reach : n \in Below(n, refs)) => r.ok

===============================================================================
