-------------------------- MODULE MCRequestHandling --------------------------
(***************************************************************************)
(* Requests and message types for TLC: the requests with one deviation;    *)
(* a field of every kind of member, alone, in each kind of array, in a     *)
(* nested message and in an array of nested messages; every small JSON     *)
(* value in that field; and responses with what no JSON can say.           *)
(***************************************************************************)
EXTENDS RequestHandling, TLC

\* Of the doubles the small ones, whole and half, and a few of the large ones:
\* 2^63 - 1 lies between two, and rounds to 2^63.
Max64    == MaxInt64AsDouble
MaxU64   == MaxUInt64AsDouble
Largest  == MaxU64 + 16
RealsOf(whole, half) == {Real(n, FALSE) : n \in whole} \cup {Real(n, TRUE) : n \in half}
MCDoubles == RealsOf((-8 .. 8) \cup {-Max64 - 8, -Max64, Max64 - 8, Max64, MaxU64 - 8,
                                  MaxU64, Largest}, -8 .. 7)

\* The floats are fewer; the long doubles more, between two and beyond them all.
\* Two bits stand for the narrow integers, LargestBits for the widest.
Floating(values, limit, long) ==
    [type |-> "floating", values |-> values, limit |-> limit, long |-> long,
     initial |-> Real(1, FALSE)]
Floats  == {Floating(RealsOf((-4 .. 4) \cup {6, 8, -Max64, Max64, MaxU64}, {}),
                     MaxU64, FALSE),
            Floating(MCDoubles, Largest, FALSE),
            Floating(MCDoubles \cup RealsOf({Largest + 16}, {8}), Largest + 16, TRUE)}
Scalars == {[type |-> "bool", initial |-> TRUE], [type |-> "other", initial |-> TRUE]}
             \cup [type : {"signed", "unsigned"}, bits : {2, LargestBits}, initial : {1}]
             \cup Floats
             \cup [type : {"string", "wstring"}, bound : {0, 1},
                   initial : {Text(1, TRUE)}]

\* A tree put below the field data.
Below(steps, tree) ==
    [p \in {steps \o q : q \in DOMAIN tree} |->
        tree[SubSeq(p, Len(steps) + 1, Len(p))]]
Data(tree) == Below(<<Field("data")>>, tree)
Leaf(node) == Root :> node

\* A message with the member in question and one that documents leave out.
Rest == [type |-> "signed", bits |-> 2, initial |-> -1]
Message(member) ==
    Leaf([type |-> "message"]) @@ Data(member) @@ (<<Field("rest")>> :> Rest)

\* An array that starts with n items; a message is its own default.
ArrayOf(member, array, size, n) ==
    Leaf([type |-> "array", array |-> array, size |-> size, initial |-> n])
      @@ Below(<<Item(1)>>, member)
ItemOf(s, n) == Leaf([s EXCEPT !.initial = [i \in 1 .. n |-> s.initial]])

Plain  == {Leaf(s) : s \in Scalars}
Arrays == UNION {{ArrayOf(ItemOf(s, 2), "fixed", 2, 2),
                  ArrayOf(ItemOf(s, 1), "bounded", 1, 1),
                  ArrayOf(ItemOf(s, 0), "sequence", 0, 0)} : s \in Scalars}

MCMessageTypes ==
    {Message(m) : m \in Plain \cup Arrays}
      \cup {Message(Message(m)) : m \in Plain}
      \cup {Message(ArrayOf(Message(m), "fixed", 1, 1)) : m \in Plain}
      \cup {Message(ArrayOf(Message(m), "bounded", 1, 0)) : m \in Plain}

\* Integers and doubles at the limits of each width and just beyond them.
Edges   == {-Max64, -3, -2, -1, 0, 1, 2, 3, 4, 6, 7, Max64 - 1, Max64, MaxU64 - 1}
Numbers == {Integer(n) : n \in Edges}
             \cup RealsOf((-3 .. 7) \cup {-Max64 - 8, -Max64, Max64 - 8, Max64, MaxU64 - 8,
                                       MaxU64, Largest}, {-1, 0, 5, 6})
             \cup {Infinity}
Texts   == {Text(n, ascii) : n \in 0 .. 2, ascii \in BOOLEAN} \ {Text(0, FALSE)}
Values  == Numbers \cup Texts \cup {Malformed(2), Boolean(TRUE), Null}
Few     == {Integer(1), Integer(3), Real(Max64, FALSE), Text(1, TRUE),
            Text(2, FALSE), Boolean(TRUE), Null}

\* Documents: a value, a list or an object in the field, and lists of objects.
Inside(tree) == Leaf(Object) @@ Data(tree)
List(trees)  == IF trees = <<>> THEN Leaf(Array(0))
                ELSE IF Len(trees) = 1
                THEN Leaf(Array(1)) @@ Below(<<Item(1)>>, trees[1])
                ELSE Leaf(Array(2)) @@ Below(<<Item(1)>>, trees[1])
                                    @@ Below(<<Item(2)>>, trees[2])
Lists(trees) == {List(s) : s \in UNION {[1 .. n -> trees] : n \in 0 .. 2}}

MCDocuments ==
    {Inside(Leaf(v)) : v \in Values}
      \cup {Inside(list) : list \in Lists({Leaf(v) : v \in Few})}
      \cup {Inside(Inside(Leaf(v))) : v \in Values}
      \cup {Inside(List(<<Inside(Leaf(v))>>)) : v \in Values}
      \cup {Inside(List(<<Leaf(Object), Inside(Leaf(Integer(1)))>>)),
            Leaf(Object),
            Leaf(Object) @@ (<<Field("unknown")>> :> Integer(1)),
            Inside(Leaf(Integer(1))) @@ (<<Field("rest")>> :> Integer(1))}

\* Responses: an extreme of each kind of member.
Response(m, x) ==
    [type    |-> Message(Leaf(m)),
     message |-> Leaf(Members) @@ Data(Leaf(x)) @@ (<<Field("rest")>> :> -1)]
MCReceived ==
    UNION {CASE m.type = "floating" -> {Response(m, x) : x \in NonFinite \cup m.values}
             [] m.type \in {"string", "wstring"} ->
                  {Response(m, x) : x \in {Text(1, FALSE), Text(1, TRUE), Malformed(1)}}
             [] m.type = "signed"   -> {Response(m, -(2 ^ (m.bits - 1)))}
             [] m.type = "unsigned" -> {Response(m, 2 ^ m.bits - 1)}
             [] OTHER -> {Response(m, m.initial)} : m \in Scalars}

------------------------------------------------------------------------------
\* A sound request of each kind, and each of its fields replaced by what may be
\* wrong with it or left out.
Sound == [publish |->
            [topic |-> Word(247, "graph name"),
             messageType |-> Word(256, "message type"),
             message |-> Subdocument(Leaf(Object)),
             qosDepth |-> Integer(1), reliability |-> Word(8, "reliable"),
             durability |-> Word(8, "volatile"),
             waitForSubscribersMs |-> Real(0, FALSE)],
          service |->
            [service |-> Word(1, "graph name"),
             serviceType |-> Word(9, "service type"),
             request |-> Subdocument(Leaf(Object)),
             waitForServiceMs |-> Integer(60000),
             callTimeoutMs |-> Integer(120000)],
          configuration |->
            [domainId |-> Integer(232), rmwImplementation |-> Text(0, TRUE)]]

Waits  == {0, 1, 60000, 60001, 120000, 300000, 300001}
Others == {Word(n, form) : n \in {1, 247, 248, 255, 256, 257, 1024, 1025},
                           form \in Forms}
            \cup {Integer(n) : n \in Waits \cup {1000, 1001, 232, 233}}
            \cup {CutWord(n, k, form) : n \in {250, 1024, 1025}, k \in {4, 248},
                                      form \in {"graph name", "message type"}}
            \cup {Array(0)} \cup Values

Request(kind, wrong, text) ==
    [kind |-> kind, wrong |-> wrong, lax |-> FALSE, text |-> text]

Replaced(kind) ==
    UNION {{[Sound[kind] EXCEPT ![n] = j] : j \in Others} : n \in DOMAIN Sound[kind]}
Shortened(kind) ==
    {[n \in DOMAIN Sound[kind] \ {left} |-> Sound[kind][n]] :
        left \in DOMAIN Sound[kind]}
Deviations(kind) ==
    {Fields(f) : f \in Replaced(kind) \cup Shortened(kind)
                         \cup {Sound[kind] @@ [unknown |-> Null]}}
      \cup {NotStrict, TooDeep, Array(0)}

Envelopes(kind) ==
    SUBSET IF kind = "configuration" THEN Envelope \ {"context"} ELSE Envelope

Lax(r) == [r EXCEPT !.lax = TRUE]

MCRequests ==
    UNION {{Request(kind, {}, text) : text \in Deviations(kind)}
             \cup {Request(kind, wrong, Fields(Sound[kind])) :
                      wrong \in Envelopes(kind)}
             \cup {Lax(Request(kind, {}, text)) :
                      text \in {Fields(Sound[kind]), Fields(<<>>)}} : kind \in Kinds}
      \cup {Request("publish", {}, Fields([Sound["publish"] EXCEPT
                                              !.message = Subdocument(doc)])) :
               doc \in MCDocuments}
==============================================================================
