---------------------------- MODULE MCKeyLookup ----------------------------
(* Keys, queries and paths for KeyLookup, scaled: 2^32 is 16, 2^24 is 8,   *)
(* 256 is 4, a byte has 2 bits and 27 is 3.                                *)
EXTENDS KeyLookup

o(t, d) == Mk(t, d, <<>>)
Tup(c) == Mk("tuple", <<>>, c)
L(n) == o("long", <<n>>)
S(d) == o("str", d)
B(d) == o("bitvector", d)

Numbers == {L(-1), L(0), L(1), L(9), L(15), o("bool", <<1>>), o("float", <<2>>), o("float", <<1>>),
            o("float", <<16>>), o("float", <<>>)}
Texts == {S(<<>>), S(<<1>>), S(<<1, 2>>), S(<<5>>)}
Bitvectors == {B(<<>>), B(<<0>>), B(<<1, 0, 1>>), B(<<1, 0, 1, 0>>), B(<<1, 1, 0, 0>>), B(<<0, 1, 1, 1>>)}
Tuples == {Tup(<<L(1)>>), Tup(<<L(0)>>), Tup(<<o("None", <<>>)>>), Tup(<<L(1), L(-1)>>), Tup(<<o("float", <<2>>)>>),
           Tup(<<L(9), S(<<1>>)>>), Tup(<<Tup(<<L(1)>>)>>)}
Prims == {o("prim_u32", <<1>>), o("prim_i64", <<1>>), o("prim_i64", <<17>>)}

Objects == Numbers \cup Texts \cup Bitvectors \cup Tuples \cup Prims \cup {o("None", <<>>)}
Others == {L(1), L(15), o("float", <<2>>), S(<<1>>), B(<<1, 0, 1>>), B(<<1, 0, 1, 0>>), Tup(<<L(1)>>), o("prim_i64", <<1>>)}
Vec == Mk("VECTOR_U32", <<>>, <<Mk("U32", <<0>>, <<>>), Mk("U32", <<1>>, <<>>)>>)
Queries == Objects \cup
    {L(16), L(-9), o("list", <<>>), S(<<1, 0, 2>>), o("bool", <<0>>), Tup(<<L(16)>>),
     Mk("slice", <<1, 1>>, <<Vec>>), Mk("slice", <<0, 2>>, <<Vec>>), Mk("slice", <<0, 1>>, <<[Vec EXCEPT !.t = "VECTOR_VALUE"]>>),
     Tup(<<Mk("slice", <<1, 1>>, <<Vec>>)>>), o("prim_i64", <<-1>>), o("prim_f", <<2>>)}
Ints == {-1, 0, 1, 9, 14, 15, 16, 31}
Strings == {<<>>, <<1>>, <<1, 2>>, <<5>>, <<1, 1>>}
Held == <<Vec, Mk("BITVECTOR_PACKED", <<1, 0, 1>>, <<>>), Mk("STRING", <<1>>, <<>>)>>
Steps == {L(-1), L(1), L(9), L(15), Mk("quoted", <<>>, <<>>), Mk("quoted", <<1>>, <<>>), S(<<>>), S(<<1, 2>>)}
Paths == {<<a>> : a \in Steps} \cup {<<a, b>> : a \in Steps, b \in {L(-1), L(1), L(2), S(<<1>>)}}
=============================================================================
