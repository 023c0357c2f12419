----------------------------- MODULE MCLibrary -----------------------------
(* A small instance of Library.                                            *)
EXTENDS Library

MCDepths == [arm64 |-> {1, 2}, x86_64 |-> {4}]
MCIrqText == <<73, LF>>
MCInput   == <<65, 255, 66>>
MCUser    == <<LF>>
MCPanic   == <<80>>

\* Formats: literals, every conversion, padding, precision, over the limits.
MCItems ==
  {Literal(65), Literal(LF), Item("%", <<Percent>>), Item("other", <<122>>),
   Item("c", <<67>>), Item("s", <<66, 67>>), Item("s", <<66, 67, 68, 69, 70, 71>>),
   Padded(Item("s", <<66>>), 3, TRUE), Padded(Item("s", <<66>>), 3, FALSE),
   Cut(Item("s", <<66, 67, 68>>), 1),
   Number(0, 10, NoSign), Number(27, 16, NoSign), Number(120, 10, Minus),
   Padded(Number(7, 10, 43), 4, FALSE), Padded(Number(7, 10, NoSign), 3, TRUE),
   Item("p", <<48, 49>>)}

MCStarts == {Literal(65), Item("c", <<67>>), Padded(Item("s", <<66>>), 3, TRUE),
             Item("s", <<66, 67, 68, 69, 70, 71>>), Number(27, 10, Minus)}

MCEnds == {Literal(LF), Item("other", <<122>>), Item("c", <<67>>), Item("s", <<66, 67>>),
           Number(120, 10, NoSign), Item("p", <<48, 49>>)}

MCFormats == {<<>>} \cup {<<it>> : it \in MCItems} \cup (MCStarts \X MCEnds)

MCStrings(chars, l) == UNION {[1 .. x -> chars] : x \in 0 .. l}

\* Two strings, at 1 and at 7, with other bytes around them.
MCMemory(s, t) ==
  [a \in Addr |-> CASE a \in 1 .. Len(s) -> s[a]
                    [] a \in 7 .. 6 + Len(t) -> t[a - 6]
                    [] a \in {Len(s) + 1, 7 + Len(t)} -> 0
                    [] OTHER -> 9]

MCCall(f, d, s, len, c, m) == [f |-> f, d |-> d, s |-> s, len |-> len, c |-> c, m |-> m]

MCPairs == {MCMemory(s, t) : s \in MCStrings({1, 2}, 3), t \in MCStrings({1, 2}, 2)}

MCStringCalls ==
  {MCCall(f, 1, 7, 0, 0, m) : f \in {"strlen", "strcmp", "strcpy", "strcat", "strstr"}, m \in MCPairs}
  \cup {MCCall(f, 1, 7, l, 0, m) : f \in {"strncmp", "strncpy", "memcmp"}, l \in 0 .. 4, m \in MCPairs}
  \cup {MCCall("strchr", 7, 7, 0, c, m) : c \in {0, 2}, m \in MCPairs}
  \cup {MCCall(f, d, s, l, 77, [a \in Addr |-> a]) :
          f \in {"memset", "memcpy", "memmove"}, d \in 2 .. 5, s \in 2 .. 5, l \in 0 .. 4}
  \cup {MCCall("atol", 7, 7, 0, 0, MCMemory(<<>>, t)) : t \in MCStrings({32, 43, 45, 49, 50}, 3)}
============================================================================
