--------------------------------- MODULE Wire ---------------------------------
(***************************************************************************)
(* The Confluent wire frame (schema-serde, wire.rs) and the path of        *)
(* message indices in a Protobuf frame (format/protobuf.rs and             *)
(* format/validate.rs).                                                    *)
(*                                                                         *)
(* Scaled widths: a byte of a varint carries a digit below Base (128 in    *)
(* the code) and the bit that says more follow; a u64 has Groups digits    *)
(* (10), the last of which is at most Top (1); an i32 index lies in        *)
(* -MaxIndex..MaxIndex.  The four bytes of the id are one element.         *)
(***************************************************************************)
EXTENDS Integers, Sequences

CONSTANTS Base, Groups, Top, MaxIndex

ASSUME WireAssumption ==
    /\ Base \in Nat \ {0, 1} /\ Groups \in Nat \ {0} /\ Top \in 0..(Base - 1)
    /\ MaxIndex \in Nat

MAGIC == 0

RECURSIVE Pow(_)
Pow(n) == IF n = 0 THEN 1 ELSE Base * Pow(n - 1)

Failed == [ok |-> FALSE]

-------------------------------------------------------------------------------
(* Varints. *)

ZigZag(v) == IF v >= 0 THEN 2 * v ELSE -2 * v - 1
UnZigZag(z) == IF z % 2 = 0 THEN z \div 2 ELSE -((z + 1) \div 2)

RECURSIVE put_digits(_)
put_digits(z) ==
    IF z < Base THEN <<z>> ELSE <<Base + (z % Base)>> \o put_digits(z \div Base)

put_varint(v) == put_digits(ZigZag(v))

encoded_varint_len(z) == CHOOSE n \in 1..Groups : /\ z < Pow(n)
                                                  /\ \A m \in 1..(n - 1) : z >= Pow(m)

(* Seeded defect: overlong encodings pass. *)
Overlong(z, index) == FALSE

(* The shortest encoding is the only one. *)
overlong(z, index) == encoded_varint_len(z) # index + 1

RECURSIVE read_digits(_, _, _)
read_digits(bytes, index, result) ==
    IF index >= Groups \/ index >= Len(bytes) THEN Failed
    ELSE LET byte    == bytes[index + 1]
             payload == byte % Base
             z       == result + payload * Pow(index)
         IN  CASE index = Groups - 1 /\ payload > Top -> Failed
               [] byte >= Base /\ ~(index = Groups - 1 /\ payload > Top) -> read_digits(bytes, index + 1, z)
               [] OTHER ->
                     IF overlong(z, index) THEN Failed
                     ELSE [ok |-> TRUE, value |-> UnZigZag(z),
                           rest |-> SubSeq(bytes, index + 2, Len(bytes))]

read_varint(bytes) == read_digits(bytes, 0, 0)

-------------------------------------------------------------------------------
(* Frames. *)

RECURSIVE put_indices(_)
put_indices(indices) ==
    IF indices = << >> THEN << >> ELSE put_varint(Head(indices)) \o put_indices(Tail(indices))

(* The path to the first top-level message is one zero byte, no count. *)
encode_protobuf(id, indices, body) ==
    <<MAGIC, id>>
        \o (IF indices = <<0>> THEN <<0>> ELSE put_varint(Len(indices)) \o put_indices(indices))
        \o body

encode(id, body) == <<MAGIC, id>> \o body

strip_header(bytes) ==
    IF Len(bytes) < 2 \/ bytes[1] # MAGIC THEN Failed
    ELSE [ok |-> TRUE, id |-> bytes[2], rest |-> SubSeq(bytes, 3, Len(bytes))]

(* `count` more indices. *)
RECURSIVE read_indices(_, _, _)
read_indices(count, indices, bytes) ==
    IF count = 0 THEN [ok |-> TRUE, indices |-> indices, rest |-> bytes]
    ELSE LET r == read_varint(bytes)
         IN  IF ~r.ok \/ r.value \notin (-MaxIndex)..MaxIndex THEN Failed
             ELSE read_indices(count - 1, Append(indices, r.value), r.rest)

decode_protobuf(bytes) ==
    LET h == strip_header(bytes)
        c == read_varint(h.rest)
    IN  CASE ~h.ok \/ ~c.ok -> Failed
          [] h.ok /\ c.ok /\ c.value = 0 ->
                [ok |-> TRUE, id |-> h.id, indices |-> <<0>>, body |-> c.rest]
          [] h.ok /\ c.ok /\ (c.value < 0 \/ c.value > Len(c.rest)) -> Failed
          [] OTHER -> LET r == read_indices(c.value, << >>, c.rest)
                      IN  IF ~r.ok THEN Failed
                          ELSE [ok |-> TRUE, id |-> h.id, indices |-> r.indices, body |-> r.rest]

decode(bytes) ==
    LET h == strip_header(bytes)
    IN  IF h.ok THEN [ok |-> TRUE, id |-> h.id, body |-> h.rest] ELSE Failed

-------------------------------------------------------------------------------
(* Messages of a file: a sequence of [name, nested]; a full name is the    *)
(* sequence of names from the top level down.                              *)

(* message_index_in_proto_messages: depth first, 0-based; << >> for a name *)
(* that is not there.                                                      *)
RECURSIVE message_index(_, _, _)
message_index(messages, parent, target) ==
    LET Found(i) == LET full == Append(parent, messages[i].name)
                    IN  IF full = target THEN <<i - 1>>
                        ELSE LET child == message_index(messages[i].nested, full, target)
                             IN  IF child = << >> THEN << >> ELSE <<i - 1>> \o child
        hits == {i \in DOMAIN messages : Found(i) # << >>}
    IN  IF hits = {} THEN << >> ELSE Found(CHOOSE i \in hits : \A j \in hits : i <= j)

(* Seeded defect: the first index counts nested messages as well. *)
RECURSIVE message_at_flat(_, _)
message_at_flat(messages, path) ==
    LET i == path[Len(path)] + 1
    IN  IF i \in DOMAIN messages THEN <<messages[i].name>> ELSE << >>

(* The full name of the message a path leads to, << >> for none; an empty  *)
(* path means the first message.                                           *)
RECURSIVE message_at(_, _)
message_at(messages, path) ==
    IF path = << >> THEN message_at(messages, <<0>>)
    ELSE LET i == Head(path) + 1
         IN  CASE i \notin DOMAIN messages -> << >>
               [] i \in DOMAIN messages /\ Len(path) = 1 -> <<messages[i].name>>
               [] OTHER -> LET below == message_at(messages[i].nested, Tail(path))
                           IN  IF below = << >> THEN << >> ELSE <<messages[i].name>> \o below

RECURSIVE FullNames(_)
FullNames(messages) ==
    UNION {{<<messages[i].name>>} \cup {<<messages[i].name>> \o n : n \in FullNames(messages[i].nested)} :
           i \in DOMAIN messages}

===============================================================================
