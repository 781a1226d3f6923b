----------------------------- MODULE MCFieldReads ----------------------------
(* Address spaces of sixteen cells, ranges of four, two items a request.   *)
EXTENDS FieldReads

Limits == [registers |-> [gap |-> 1, size |-> 4],
           coils     |-> [gap |-> 2, size |-> 6],
           bytes     |-> [gap |-> 1, size |-> 4]]
Most == [registers |-> 5, coils |-> 8]

Numbered(s) == [k \in DOMAIN s |-> [id |-> k] @@ s[k]]

Tags(areas, addrs, counts) ==
  [area : areas, addr : addrs, count : counts]
With(tags, flags) == {t @@ f : t \in tags, f \in flags}
Lists(n, tags) == {Numbered(s) : s \in [1..n -> tags]}

\* Registers with counts the configuration can leave at zero, at both ends of
\* the space; registers that overlap, with and without another byte order; coils
\* of one or two; both kinds together.
Plain == {[reorders |-> FALSE]}
RegisterReads ==
  Lists(3, With(Tags({"holding"}, {0, 1, 4, 13, 15}, {0, 1, 3}), Plain))
OrderedReads ==
  Lists(3, With(Tags({"holding"}, {0, 1, 2}, {1, 2}), [reorders : BOOLEAN]))
CoilReads == Lists(3, With(Tags({"coil"}, {0, 2, 5, 9, 14}, {1, 2}), Plain))
MixedReads == Lists(3, With(Tags({"holding", "coil"}, {0, 3}, {1}), Plain))
Reads == RegisterReads \union OrderedReads \union CoilReads \union MixedReads

\* Two data blocks and the inputs; an address that does not parse; bools.
BlockReads ==
  Lists(3, With(Tags({"DB1"}, {0, 1, 3, 9}, {1, 2}), {[bit |-> FALSE]})) \union
  Lists(3, With(Tags({"DB1", "DB2", "I", "none"}, {0, 2}, {1}),
                {[bit |-> FALSE]})) \union
  Lists(3, With(Tags({"DB1"}, {0, 2}, {1}), [bit : BOOLEAN]))

Writes(areas) ==
  Lists(3, [area : areas, addr : {0}, count : {1}, bool : BOOLEAN,
            writable : BOOLEAN, convertible : BOOLEAN])
BlockWrites == Writes({"DB1"}) \union
               Lists(3, [area : {"DB1", "none"}, addr : {0}, count : {1},
                         bool : BOOLEAN, writable : {TRUE},
                         convertible : {TRUE}])
=============================================================================
