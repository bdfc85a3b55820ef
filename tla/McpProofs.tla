-------------------------------- MODULE McpProofs --------------------------------
(***************************************************************************)
(* Theorems about McpHttp for any number of connections, any requests and  *)
(* any registry: what a stream holds, and what a client that follows the   *)
(* cursors of a list has been told.                                        *)
(***************************************************************************)
EXTENDS McpProps, SequenceTheorems, WellFoundedInduction, TLAPS

-----------------------------------------------------------------------------
(***************************************************************************)
(* Registries.  That the recursion of Registry has a solution, and what it *)
(* says of a longer list, follows from the least number for which it would *)
(* not.                                                                    *)
(***************************************************************************)

LEMMA LeastExists ==
  ASSUME NEW S, S \subseteq Nat, S # {}
  PROVE  \E i \in S : \A k \in S : i <= k
<1> DEFINE R == {ss \in Nat \X Nat : ss[1] < ss[2]}
<1>1. IsWellFoundedOn(R, Nat)
  BY NatLessThanWellFounded DEF OpToRel
<1> HIDE DEF R
<1>2. PICK i \in S : \A k \in S : <<k, i>> \notin R
  BY <1>1, WFMin
<1>3. \A k \in S : ~(k < i)
  BY <1>2 DEF R
<1>4. QED BY <1>2, <1>3

\* kept, up to m, as Registry defines it for the list s.
Keeps(s, kind, m, kept) ==
  kept = [i \in 0 .. m |->
            IF i = 0 THEN << >>
            ELSE IF Kind[s[i]] = kind THEN Append(kept[i - 1], s[i])
            ELSE kept[i - 1]]

LEMMA KeptExists ==
  ASSUME NEW s, NEW kind, NEW m \in Nat
  PROVE  \E kept : Keeps(s, kind, m, kept)
<1> DEFINE Bad == {k \in Nat : ~ \E kept : Keeps(s, kind, k, kept)}
<1>1. ASSUME NEW k \in Nat, k # 0, k - 1 \notin Bad PROVE k \notin Bad
  <2>1. k - 1 \in Nat
    BY <1>1
  <2>2. PICK f : Keeps(s, kind, k - 1, f)
    BY <1>1, <2>1
  <2> DEFINE last == IF Kind[s[k]] = kind THEN Append(f[k - 1], s[k]) ELSE f[k - 1]
  <2> DEFINE g == [i \in 0 .. k |-> IF i = k THEN last ELSE f[i]]
  <2>3. \A i \in 0 .. (k - 1) :
          f[i] = IF i = 0 THEN << >>
                 ELSE IF Kind[s[i]] = kind THEN Append(f[i - 1], s[i]) ELSE f[i - 1]
    BY <2>2 DEF Keeps
  <2>4. ASSUME NEW i \in 0 .. k
        PROVE  g[i] = IF i = 0 THEN << >>
                      ELSE IF Kind[s[i]] = kind THEN Append(g[i - 1], s[i]) ELSE g[i - 1]
    <3>1. i = k \/ i \in 0 .. (k - 1)
      BY <2>4
    <3>2. i # 0 => i - 1 \in 0 .. k /\ i - 1 # k /\ g[i - 1] = f[i - 1]
      BY <2>4
    <3>3. CASE i = k
      <4>1. g[i] = last /\ i # 0
        BY <1>1, <3>3, <2>4
      <4>2. QED BY <3>2, <3>3, <4>1
    <3>4. CASE i # k
      <4>1. g[i] = f[i] /\ i \in 0 .. (k - 1)
        BY <3>1, <3>4, <2>4
      <4> HIDE DEF g
      <4>2. QED BY <2>3, <3>2, <4>1
    <3>5. QED BY <3>3, <3>4
  <2>5. Keeps(s, kind, k, g)
    <3>1. g = [i \in 0 .. k |-> g[i]]
      OBVIOUS
    <3> HIDE DEF g
    <3>2. QED BY <2>4, <3>1 DEF Keeps
  <2>6. QED BY <2>5
<1>2. 0 \notin Bad
  <2> DEFINE g == [i \in 0 .. 0 |-> << >>]
  <2>1. Keeps(s, kind, 0, g)
    BY DEF Keeps
  <2>2. QED BY <2>1
<1>3. Bad = {}
  <2>1. SUFFICES ASSUME Bad # {} PROVE FALSE
    OBVIOUS
  <2>2. PICK k \in Bad : \A l \in Bad : k <= l
    BY <2>1, LeastExists
  <2>3. k # 0 /\ k - 1 \notin Bad /\ k \in Nat
    BY <1>2, <2>2
  <2> HIDE DEF Bad
  <2>4. QED BY <1>1, <2>2, <2>3
<1>4. QED BY <1>3

Agree(s, t, m) == \A i \in 1 .. m : s[i] = t[i]

\* Lists that agree up to m keep the same.
LEMMA KeptAgrees ==
  ASSUME NEW s, NEW t, NEW kind, NEW m \in Nat, NEW n \in Nat, m <= n,
         Agree(s, t, m), NEW f, NEW g, Keeps(s, kind, m, f), Keeps(t, kind, n, g)
  PROVE  Agree(f, g, m) /\ f[0] = g[0]
<1> DEFINE Bad == {i \in 0 .. m : f[i] # g[i]}
<1>1. SUFFICES ASSUME Bad # {} PROVE FALSE
  BY DEF Agree
<1>2. PICK k \in Bad : \A l \in Bad : k <= l
  <2>1. Bad \subseteq Nat
    OBVIOUS
  <2>2. QED BY <1>1, <2>1, LeastExists
<1>3. k \in 0 .. m /\ k \in 0 .. n /\ f[k] # g[k]
  BY <1>2
<1>4. /\ f[k] = IF k = 0 THEN << >>
                ELSE IF Kind[s[k]] = kind THEN Append(f[k - 1], s[k]) ELSE f[k - 1]
      /\ g[k] = IF k = 0 THEN << >>
                ELSE IF Kind[t[k]] = kind THEN Append(g[k - 1], t[k]) ELSE g[k - 1]
  BY <1>3 DEF Keeps
<1>5. k # 0
  BY <1>3, <1>4
<1>6. k - 1 \in 0 .. m /\ k - 1 \notin Bad /\ k \in 1 .. m
  BY <1>2, <1>3, <1>5
<1>7. f[k - 1] = g[k - 1] /\ s[k] = t[k]
  BY <1>6 DEF Agree
<1>8. QED BY <1>3, <1>4, <1>7 DEF Agree

Kept(s, kind) == CHOOSE kept : Keeps(s, kind, Len(s), kept)

LEMMA RegistryKeeps ==
  ASSUME NEW s \in Seq(Capabilities), NEW kind
  PROVE  Keeps(s, kind, Len(s), Kept(s, kind)) /\ Registry(s, kind) = Kept(s, kind)[Len(s)]
<1>1. Len(s) \in Nat
  BY LenProperties
<1>2. Keeps(s, kind, Len(s), Kept(s, kind))
  BY <1>1, KeptExists DEF Kept
<1>3. Registry(s, kind) = Kept(s, kind)[Len(s)]
  BY DEF Registry, Kept, Keeps
<1>4. QED BY <1>2, <1>3

LEMMA RegistryIsSeq ==
  ASSUME NEW s \in Seq(Capabilities), NEW kind
  PROVE  Registry(s, kind) \in Seq(Capabilities)
<1>1. PICK l \in Nat : l = Len(s)
  BY LenProperties
<1>2. PICK f : f = Kept(s, kind)
  OBVIOUS
<1>3. Keeps(s, kind, l, f) /\ Registry(s, kind) = f[l]
  BY <1>1, <1>2, RegistryKeeps
<1> DEFINE Bad == {i \in 0 .. l : f[i] \notin Seq(Capabilities)}
<1>4. Bad = {}
  <2>1. SUFFICES ASSUME Bad # {} PROVE FALSE
    OBVIOUS
  <2>2. PICK k \in Bad : \A i \in Bad : k <= i
    <3>1. Bad \subseteq Nat
      OBVIOUS
    <3>2. QED BY <2>1, <3>1, LeastExists
  <2>3. k \in 0 .. l /\ f[k] \notin Seq(Capabilities)
    BY <2>2
  <2>4. f[k] = IF k = 0 THEN << >>
               ELSE IF Kind[s[k]] = kind THEN Append(f[k - 1], s[k]) ELSE f[k - 1]
    BY <1>3, <2>3 DEF Keeps
  <2>5. k # 0
    BY <2>3, <2>4, EmptySeq
  <2>6. k - 1 \in 0 .. l /\ k - 1 \notin Bad /\ k \in 1 .. l
    BY <2>2, <2>3, <2>5
  <2>7. f[k - 1] \in Seq(Capabilities) /\ s[k] \in Capabilities
    BY <1>1, <2>6, ElementOfSeq
  <2>8. Append(f[k - 1], s[k]) \in Seq(Capabilities)
    BY <2>7, AppendProperties
  <2>9. QED BY <2>3, <2>4, <2>5, <2>7, <2>8
<1>5. QED BY <1>3, <1>4

LEMMA RegistryOfNone == ASSUME NEW kind PROVE Registry(<< >>, kind) = << >>
<1>1. << >> \in Seq(Capabilities) /\ Len(<< >>) = 0
  BY EmptySeq
<1>2. PICK f : f = Kept(<< >>, kind)
  OBVIOUS
<1>3. Keeps(<< >>, kind, 0, f) /\ Registry(<< >>, kind) = f[0]
  BY <1>1, <1>2, RegistryKeeps
<1>4. QED BY <1>3 DEF Keeps

LEMMA RegistryAppend ==
  ASSUME NEW s \in Seq(Capabilities), NEW n \in Capabilities, NEW kind
  PROVE  Registry(Append(s, n), kind) =
           IF Kind[n] = kind THEN Append(Registry(s, kind), n) ELSE Registry(s, kind)
<1>1. PICK l \in Nat : l = Len(s)
  BY LenProperties
<1>2. PICK t \in Seq(Capabilities) : t = Append(s, n)
  BY AppendProperties
<1>3. Len(t) = l + 1 /\ t[l + 1] = n /\ \A i \in 1 .. l : s[i] = t[i]
  BY <1>1, <1>2, AppendProperties
<1>4. PICK f, g : f = Kept(s, kind) /\ g = Kept(t, kind)
  OBVIOUS
<1>5. /\ Keeps(s, kind, l, f) /\ Registry(s, kind) = f[l]
      /\ Keeps(t, kind, l + 1, g) /\ Registry(t, kind) = g[l + 1]
  BY <1>1, <1>3, <1>4, RegistryKeeps
<1>6. f[l] = g[l]
  <2>1. PICK m \in Nat : m = l + 1 /\ l <= m
    BY <1>1
  <2>2. Agree(s, t, l) /\ Keeps(t, kind, m, g)
    BY <1>3, <1>5, <2>1 DEF Agree
  <2>3. Agree(f, g, l) /\ f[0] = g[0]
    BY <1>5, <2>1, <2>2, KeptAgrees
  <2>4. l = 0 \/ l \in 1 .. l
    BY <1>1
  <2>5. QED BY <2>3, <2>4 DEF Agree
<1>7. g[l + 1] = IF Kind[t[l + 1]] = kind THEN Append(g[l], t[l + 1]) ELSE g[l]
  <2>1. l + 1 \in 0 .. (l + 1) /\ l + 1 # 0 /\ (l + 1) - 1 = l
    BY <1>1
  <2>2. QED BY <1>5, <2>1 DEF Keeps
<1>8. QED BY <1>2, <1>3, <1>5, <1>6, <1>7

\* A list of definitions only ever grows at its end.
LEMMA DefinitionsGrow ==
  ASSUME NEW s \in Seq(Capabilities), NEW n \in Capabilities, NEW kind
  PROVE  /\ Len(Definitions(s, kind)) = Len(Registry(s, kind))
         /\ Len(Definitions(s, kind)) \in Nat
         /\ Len(Registry(s, kind)) <= Len(Registry(Append(s, n), kind))
         /\ \A i \in 1 .. Len(Definitions(s, kind)) :
              Definitions(Append(s, n), kind)[i] = Definitions(s, kind)[i]
<1>1. PICK t \in Seq(Capabilities) : t = Append(s, n)
  BY AppendProperties
<1>2. PICK R \in Seq(Capabilities), T \in Seq(Capabilities) :
        R = Registry(s, kind) /\ T = Registry(t, kind)
  BY <1>1, RegistryIsSeq
<1>3. PICK l \in Nat : l = Len(R) /\ DOMAIN R = 1 .. l
  BY LenProperties
<1>4. PICK m \in Nat : m = Len(T) /\ DOMAIN T = 1 .. m
  BY LenProperties
<1>5. l <= m /\ \A i \in 1 .. l : T[i] = R[i]
  <2>1. T = IF Kind[n] = kind THEN Append(R, n) ELSE R
    BY <1>1, <1>2, RegistryAppend
  <2>2. Len(Append(R, n)) = l + 1 /\ \A i \in 1 .. l : Append(R, n)[i] = R[i]
    BY <1>3, AppendProperties
  <2>3. QED BY <1>3, <1>4, <2>1, <2>2
<1>6. /\ Definitions(s, kind) = [i \in 1 .. l |-> Definition(R[i])]
      /\ Definitions(t, kind) = [i \in 1 .. m |-> Definition(T[i])]
  BY <1>2, <1>3, <1>4 DEF Definitions
<1>7. Len(Definitions(s, kind)) = l
  BY <1>6
<1>8. \A i \in 1 .. l : Definitions(t, kind)[i] = Definitions(s, kind)[i]
  BY <1>5, <1>6
<1>9. QED BY <1>1, <1>2, <1>3, <1>4, <1>5, <1>7, <1>8
-----------------------------------------------------------------------------
(***************************************************************************)
(* Messages and answers.                                                   *)
(***************************************************************************)
Defs   == {Definition(n) : n \in Capabilities}
Groups == {"tools", "resources", "prompts"}
Codes  == ErrorCodes \cup {"plain", "ok"}

Message ==
  [kind : {"result", "error", "progress"}, code : Codes,
   items : Seq(Defs) \cup {<<"output">>} \cup SUBSET Groups, next : Nat]

Values == {"value", "ValueError", "exception"}

LEMMA FailureIsMessage ==
  ASSUME NEW code \in ErrorCodes \cup {"plain"}
  PROVE  Failure(code) \in Message /\ Failure(code).kind = "error" /\ Failure(code).code = code
<1>1. << >> \in Seq(Defs) /\ 0 \in Nat /\ code \in Codes
  BY EmptySeq DEF Codes
<1>2. QED BY <1>1 DEF Failure, Message

LEMMA DefinitionsAreDefs ==
  ASSUME NEW s \in Seq(Capabilities), NEW kind
  PROVE  Definitions(s, kind) \in Seq(Defs)
<1>1. PICK R \in Seq(Capabilities) : R = Registry(s, kind)
  BY RegistryIsSeq
<1>2. PICK l \in Nat : l = Len(R) /\ DOMAIN R = 1 .. l
  BY LenProperties
<1>3. Definitions(s, kind) = [i \in 1 .. l |-> Definition(R[i])]
  BY <1>1, <1>2 DEF Definitions
<1>4. \A i \in 1 .. l : R[i] \in Capabilities
  BY <1>2, ElementOfSeq
<1>5. \A i \in 1 .. l : Definition(R[i]) \in Defs
  BY <1>4 DEF Defs
<1>6. QED BY <1>3, <1>5

\* The items of a page, and where the next one begins.
Cut(values, cursor, e, page) ==
  /\ e \in Nat /\ cursor <= e /\ e <= Len(values)
  /\ page.items = SubSeq(values, cursor + 1, e)
  /\ page.next = IF e < Len(values) THEN e ELSE 0
  /\ e = 0 => Len(values) = 0

LEMMA PageIsCut ==
  ASSUME NEW values \in Seq(Defs), NEW cursor \in Nat, NEW size \in Nat
  PROVE  /\ Page(values, cursor, size) \in Message
         /\ Page(values, cursor, size).kind \in {"result", "error"}
         /\ Page(values, cursor, size).kind = "result" =>
              \E e \in Nat : Cut(values, cursor, e, Page(values, cursor, size))
<1>1. PICK l \in Nat : l = Len(values)
  BY LenProperties
<1>2. PICK p : p = Page(values, cursor, size)
  OBVIOUS
<1>3. CASE size = 0 \/ cursor > l
  <2>1. p = Failure("INVALID_PARAMS")
    BY <1>1, <1>2, <1>3 DEF Page
  <2>2. QED BY <1>2, <2>1, FailureIsMessage DEF ErrorCodes
<1>4. CASE ~(size = 0 \/ cursor > l)
  <2>1. PICK e : e = Smaller(cursor + Smaller(size, PageCap), l)
    OBVIOUS
  <2>2. e \in Nat /\ cursor <= e /\ e <= l /\ (e = 0 => l = 0)
    BY <1>4, <2>1, CapabilitiesAssumption DEF Smaller
  <2>3. p = Result(SubSeq(values, cursor + 1, e), IF e < l THEN e ELSE 0)
    BY <1>1, <1>2, <1>4, <2>1 DEF Page
  <2>4. /\ p.kind = "result" /\ p.items = SubSeq(values, cursor + 1, e)
        /\ p.next = IF e < l THEN e ELSE 0
    BY <2>3 DEF Result
  <2>5. SubSeq(values, cursor + 1, e) \in Seq(Defs)
    <3>1. \A i \in (cursor + 1) .. e : i \in 1 .. l
      BY <2>2
    <3>2. \A i \in (cursor + 1) .. e : values[i] \in Defs
      BY <1>1, <3>1, ElementOfSeq
    <3>3. QED BY <2>2, <3>2, SubSeqProperties
  <2>6. p \in Message
    BY <2>2, <2>3, <2>5 DEF Result, Message, Codes
  <2>7. Cut(values, cursor, e, p)
    BY <1>1, <2>2, <2>4 DEF Cut
  <2>8. QED BY <1>2, <2>2, <2>4, <2>6, <2>7
<1>5. QED BY <1>3, <1>4

\* What may answer request r with that status: one message, or none for a notification.
Body(M, r, status) ==
  /\ M \in Seq(Message) /\ (M = << >> \/ \E m \in Message : M = <<m>> /\ IsAnswer(m))
  /\ r.id => M # << >>
  /\ ~r.id => \A i \in DOMAIN M : M[i].code \in CheckCodes \/ status = 400

LEMMA SingleBody ==
  ASSUME NEW m \in Message, IsAnswer(m), NEW r \in Requests, NEW status,
         ~r.id => m.code \in CheckCodes \/ status = 400
  PROVE  Body(<<m>>, r, status)
<1>1. <<m>> \in Seq(Message) /\ <<m>> # << >> /\ DOMAIN <<m>> = {1} /\ <<m>>[1] = m
  OBVIOUS
<1>2. QED BY <1>1 DEF Body

LEMMA RespondIsBody ==
  ASSUME NEW reg \in Seq(Capabilities), NEW r \in Requests, NEW o \in Values, NEW status
  PROVE  /\ Body(Respond(reg, r, o), r, status)
         /\ r.method \in DOMAIN ListOf =>
              \A i \in DOMAIN Respond(reg, r, o) :
                Respond(reg, r, o)[i].kind = "result" =>
                  Respond(reg, r, o)[i] = Page(Definitions(reg, ListOf[r.method]), r.cursor, r.size)
<1>1. r.wellFormed \in BOOLEAN /\ r.id \in BOOLEAN /\ r.cursor \in Nat /\ r.size \in Nat
  BY RequestsAssumption
<1>2. PICK M : M = Respond(reg, r, o)
  OBVIOUS
<1>3. ASSUME NEW code \in {"INVALID_REQUEST", "UNSUPPORTED_PROTOCOL_VERSION", "METHOD_NOT_FOUND"},
             M = <<Failure(code)>>
      PROVE  Body(M, r, status) /\ \A i \in DOMAIN M : M[i].kind = "error"
  <2>1. code \in ErrorCodes /\ code \in CheckCodes
    BY DEF ErrorCodes, CheckCodes
  <2>2. Failure(code) \in Message /\ IsAnswer(Failure(code)) /\ Failure(code).code = code
        /\ Failure(code).kind = "error"
    BY <2>1, FailureIsMessage DEF IsAnswer
  <2>3. Body(M, r, status)
    BY <1>3, <2>1, <2>2, SingleBody
  <2>4. QED BY <1>3, <2>2, <2>3
<1>4. CASE ~r.wellFormed \/ Unsupported(r) \/ r.method \notin Methods
  <2>1. PICK code \in {"INVALID_REQUEST", "UNSUPPORTED_PROTOCOL_VERSION", "METHOD_NOT_FOUND"} :
          M = <<Failure(code)>>
    BY <1>2, <1>4 DEF Respond
  <2>2. QED BY <1>2, <1>3, <2>1
<1>5. CASE r.wellFormed /\ ~Unsupported(r) /\ r.method \in Methods /\ ~r.id
  <2>1. M = << >>
    BY <1>2, <1>5 DEF Respond, IsNotification
  <2>2. QED BY <1>2, <1>5, <2>1, EmptySeq DEF Body
<1>6. CASE r.wellFormed /\ ~Unsupported(r) /\ r.method \in Methods /\ r.id
  <2>1. PICK m : m = Called(reg, r, o)
    OBVIOUS
  <2>2. M = <<m>>
    BY <1>2, <1>6, <2>1 DEF Respond, IsNotification
  <2>3. /\ m \in Message /\ IsAnswer(m)
        /\ r.method \in DOMAIN ListOf /\ m.kind = "result" =>
             m = Page(Definitions(reg, ListOf[r.method]), r.cursor, r.size)
    <3>1. CASE r.method \in DOMAIN ListOf
      <4>1. m = Page(Definitions(reg, ListOf[r.method]), r.cursor, r.size)
        BY <2>1, <3>1 DEF Called, ListOf, Invocations
      <4>2. QED BY <1>1, <4>1, DefinitionsAreDefs, PageIsCut DEF IsAnswer
    <3>2. CASE r.method = "server/discover"
      <4>1. m = Result(Discovered(reg), 0)
        BY <2>1, <3>2 DEF Called, ListOf, Invocations
      <4>2. Discovered(reg) \in SUBSET Groups
        BY DEF Discovered, Groups
      <4>3. m \in Message /\ IsAnswer(m)
        BY <4>1, <4>2 DEF Result, Message, Codes, IsAnswer
      <4>4. QED BY <3>2, <4>3 DEF ListOf
    <3>3. CASE r.method \in Invocations
      <4>1. \/ m = Result(<<"output">>, 0)
            \/ m = Failure("INVALID_PARAMS")
            \/ m = Failure("INTERNAL_ERROR")
        BY <2>1, <3>3 DEF Called, ListOf, Invocations, Values
      <4>2. Result(<<"output">>, 0) \in Message /\ IsAnswer(Result(<<"output">>, 0))
        BY DEF Result, Message, Codes, IsAnswer
      <4>3. m \in Message /\ IsAnswer(m)
        BY <4>1, <4>2, FailureIsMessage DEF ErrorCodes, IsAnswer
      <4>4. r.method \notin DOMAIN ListOf
        BY <3>3 DEF ListOf, Invocations
      <4>5. QED BY <4>3, <4>4
    <3>4. QED BY <1>6, <3>1, <3>2, <3>3 DEF Methods
  <2>4. Body(M, r, status)
    BY <1>6, <2>2, <2>3, SingleBody
  <2>5. QED BY <1>2, <2>2, <2>3, <2>4
<1>7. QED BY <1>1, <1>4, <1>5, <1>6

Frames   == {"none", "json", "sse"}
Statuses == {0, 200, 202, 400, 403, 404, 406, 413}
HeadLine == [status : Statuses, frame : Frames]

LEMMA RefusalShape ==
  ASSUME NEW r \in Requests, TransportRefusal(r) # Passed
  PROVE  /\ TransportRefusal(r).status \in Statuses
         /\ TransportRefusal(r).message \in Message /\ TransportRefusal(r).message.kind = "error"
         /\ \/ TransportRefusal(r).message.code \in CheckCodes
            \/ TransportRefusal(r).status = 400
<1>1. PICK f : f = TransportRefusal(r)
  OBVIOUS
<1>2. f \in {Refusal(406, NotJsonRpc), Refusal(400, NotJsonRpc), Refusal(403, NotJsonRpc),
             Refusal(400, Failure("UNSUPPORTED_PROTOCOL_VERSION")),
             Refusal(400, Failure("HEADER_MISMATCH")), Refusal(400, Failure("INVALID_PARAMS")),
             Refusal(200, Failure("PARSE_ERROR"))}
  BY <1>1 DEF TransportRefusal, HeaderRefusal
<1>3. PICK status \in Statuses, code \in ErrorCodes \cup {"plain"} :
        /\ f = Refusal(status, Failure(code))
        /\ code \in CheckCodes \/ status = 400
  <2>1. /\ {200, 400, 403, 406} \subseteq Statuses
        /\ {"plain", "UNSUPPORTED_PROTOCOL_VERSION", "HEADER_MISMATCH", "PARSE_ERROR"} \subseteq
             CheckCodes \cap (ErrorCodes \cup {"plain"})
        /\ "INVALID_PARAMS" \in ErrorCodes
    BY DEF Statuses, CheckCodes, ErrorCodes
  <2>2. QED BY <1>2, <2>1 DEF NotJsonRpc
<1>4. f.status = status /\ f.message = Failure(code)
  BY <1>3 DEF Refusal
<1>5. QED BY <1>1, <1>3, <1>4, FailureIsMessage

LEMMA AnswerIsBody ==
  ASSUME registered \in Seq(Capabilities), NEW r \in Requests, NEW o \in Values
  PROVE  /\ Answer(r, o).head \in HeadLine
         /\ Body(Answer(r, o).body, r, Answer(r, o).head.status)
         /\ r.method \in DOMAIN ListOf =>
              \A i \in DOMAIN Answer(r, o).body :
                Answer(r, o).body[i].kind = "result" =>
                  Answer(r, o).body[i] =
                    Page(Definitions(registered, ListOf[r.method]), r.cursor, r.size)
<1>1. PICK f, M, a : f = TransportRefusal(r) /\ M = Respond(registered, r, o) /\ a = Answer(r, o)
  OBVIOUS
<1>2. CASE f # Passed
  <2>1. a.head = StatusLine(f.status, "json") /\ a.body = <<f.message>>
    BY <1>1, <1>2 DEF Answer
  <2>2. /\ f.status \in Statuses /\ f.message \in Message /\ f.message.kind = "error"
        /\ f.message.code \in CheckCodes \/ f.status = 400
    BY <1>1, <1>2, RefusalShape
  <2>3. a.head \in HeadLine /\ a.head.status = f.status
    BY <2>1, <2>2 DEF StatusLine, HeadLine, Frames
  <2>4. Body(a.body, r, f.status)
    BY <2>1, <2>2, SingleBody DEF IsAnswer
  <2>5. \A i \in DOMAIN a.body : a.body[i].kind = "error"
    BY <2>1, <2>2
  <2>6. QED BY <1>1, <2>3, <2>4, <2>5
<1>3. CASE f = Passed
  <2>1. \E frame \in {"sse", "json"} : a.head = StatusLine(StatusOf(M), frame) /\ a.body = M
    BY <1>1, <1>3 DEF Answer
  <2>2. StatusOf(M) \in Statuses
    BY DEF StatusOf, Statuses
  <2>3. a.head \in HeadLine /\ a.body = M
    BY <2>1, <2>2 DEF StatusLine, HeadLine, Frames
  <2>4. QED BY <1>1, <2>3, RespondIsBody
<1>4. QED BY <1>2, <1>3

LEMMA OutcomesAreValues ==
  ASSUME NEW r \in Requests, NEW o \in OutcomesNow(r)
  PROVE  o \in Values \cup {"exit"}
BY DEF OutcomesNow, Outcomes, Values
-----------------------------------------------------------------------------
(***************************************************************************)
(* Following the cursors of a list.                                        *)
(***************************************************************************)

\* The list that a client has is the beginning of what is registered.
Followed(list, reg) ==
  list = NoPages \/
    /\ list.kind \in Kinds /\ list.items \in Seq(Defs) /\ list.next \in Nat /\ list.size \in Nat
    /\ list.size <= Len(Definitions(reg, list.kind))
    /\ Len(list.items) = IF list.next = 0 THEN list.size ELSE list.next
    /\ Len(list.items) <= list.size
    /\ \A i \in 1 .. Len(list.items) : list.items[i] = Definitions(reg, list.kind)[i]

LEMMA RegisterKeepsLists ==
  ASSUME NEW reg \in Seq(Capabilities), NEW n \in Capabilities, NEW list, Followed(list, reg)
  PROVE  Followed(list, Append(reg, n))
<1>1. PICK D, E : D = Definitions(reg, list.kind) /\ E = Definitions(Append(reg, n), list.kind)
  OBVIOUS
<1>2. Append(reg, n) \in Seq(Capabilities)
  BY AppendProperties
<1>3. /\ Len(D) \in Nat /\ Len(E) \in Nat /\ Len(D) <= Len(E)
      /\ \A i \in 1 .. Len(D) : E[i] = D[i]
  <2>1. PICK k : k = list.kind
    OBVIOUS
  <2>2. PICK t \in Seq(Capabilities) : t = Append(reg, n)
    BY <1>2
  <2>3. /\ Len(Definitions(reg, k)) = Len(Registry(reg, k))
        /\ Len(Definitions(reg, k)) \in Nat
        /\ Len(Registry(reg, k)) <= Len(Registry(Append(reg, n), k))
        /\ \A i \in 1 .. Len(Definitions(reg, k)) :
             Definitions(Append(reg, n), k)[i] = Definitions(reg, k)[i]
    BY DefinitionsGrow
  <2>4. Len(Definitions(t, k)) = Len(Registry(t, k)) /\ Len(Definitions(t, k)) \in Nat
    BY DefinitionsGrow
  <2>5. QED BY <1>1, <2>1, <2>2, <2>3, <2>4
<1>4. CASE list # NoPages
  <2>1. PICK m \in Nat : m = Len(list.items)
    BY <1>4, LenProperties DEF Followed
  <2>2. /\ list.size \in Nat /\ list.size <= Len(D) /\ m <= list.size
        /\ \A i \in 1 .. m : list.items[i] = D[i]
    BY <1>1, <1>4, <2>1 DEF Followed
  <2>3. list.size <= Len(E) /\ \A i \in 1 .. m : list.items[i] = E[i]
    BY <1>3, <2>2
  <2>4. QED BY <1>1, <1>4, <2>1, <2>3 DEF Followed
<1>5. QED BY <1>4 DEF Followed

Begins(items, D, k) ==
  items \in Seq(Defs) /\ Len(items) = k /\ \A i \in 1 .. k : items[i] = D[i]

\* A page that continues the first k definitions.
LEMMA PageContinues ==
  ASSUME NEW D \in Seq(Defs), NEW page \in Message, NEW k \in Nat, NEW e, Cut(D, k, e, page),
         NEW items, Begins(items, D, k)
  PROVE  Begins(items \o page.items, D, e)
<1>1. PICK l \in Nat : l = Len(D)
  BY LenProperties
<1>2. e \in Nat /\ k <= e /\ e <= l /\ page.items = SubSeq(D, k + 1, e)
  BY <1>1 DEF Cut
<1>3. PICK P : P = SubSeq(D, k + 1, e)
  OBVIOUS
<1>4. \A i \in (k + 1) .. e : D[i] \in Defs
  <2>1. \A i \in (k + 1) .. e : i \in 1 .. l
    BY <1>2
  <2>2. QED BY <1>1, <2>1, ElementOfSeq
<1>5. P \in Seq(Defs) /\ Len(P) = e - k /\ \A i \in 1 .. (e - k) : P[i] = D[k + i]
  <2>1. k + 1 \in Int /\ e \in Int /\ k + 1 <= e + 1
    BY <1>2
  <2>2. /\ P \in Seq(Defs)
        /\ Len(P) = IF k + 1 <= e THEN e - (k + 1) + 1 ELSE 0
        /\ \A i \in 1 .. (e - (k + 1) + 1) : P[i] = D[(k + 1) + i - 1]
    BY <1>3, <1>4, <2>1, SubSeqProperties
  <2>3. e - (k + 1) + 1 = e - k /\ (~(k + 1 <= e) => e - k = 0)
    BY <1>2
  <2>4. \A i \in 1 .. (e - k) : (k + 1) + i - 1 = k + i
    BY <1>2
  <2>5. QED BY <2>2, <2>3, <2>4
<1>6. PICK C : C = items \o P
  OBVIOUS
<1>7. /\ C \in Seq(Defs) /\ Len(C) = k + (e - k)
      /\ \A i \in 1 .. (k + (e - k)) : C[i] = IF i <= k THEN items[i] ELSE P[i - k]
  BY <1>5, <1>6, ConcatProperties DEF Begins
<1>8. k + (e - k) = e
  BY <1>2
<1>9. ASSUME NEW i \in 1 .. e PROVE C[i] = D[i]
  <2>1. CASE i <= k
    BY <1>7, <1>8, <1>9, <2>1 DEF Begins
  <2>2. CASE ~(i <= k)
    <3>1. i - k \in 1 .. (e - k) /\ k + (i - k) = i
      BY <1>2, <1>9, <2>2
    <3>2. QED BY <1>5, <1>7, <1>8, <1>9, <2>2, <3>1
  <2>3. QED BY <2>1, <2>2
<1>10. QED BY <1>2, <1>3, <1>6, <1>7, <1>8, <1>9 DEF Begins

LEMMA FollowKeepsLists ==
  ASSUME registered \in Seq(Capabilities), NEW r \in Requests, NEW o \in Values,
         NEW list, Followed(list, registered)
  PROVE  Followed(Follow(list, r, Answer(r, o).body), registered)
<1>1. PICK M, new : M = Answer(r, o).body /\ new = Follow(list, r, M)
  OBVIOUS
<1>2. CASE r.method \notin DOMAIN ListOf \/ M = << >>
  BY <1>1, <1>2 DEF Follow
<1>3. CASE r.method \in DOMAIN ListOf /\ M # << >>
  <2>1. \E m \in Message : M = <<m>>
    BY <1>1, <1>3, AnswerIsBody DEF Body
  <2>2. PICK page \in Message : M = <<page>>
    BY <2>1
  <2>3. DOMAIN M = {1} /\ M[1] = page
    BY <2>2
  <2>4. CASE page.kind # "result"
    BY <1>1, <1>3, <2>3, <2>4 DEF Follow
  <2>5. CASE page.kind = "result"
    <3>1. PICK kind, D : kind = ListOf[r.method] /\ D = Definitions(registered, kind)
      OBVIOUS
    <3>2. kind \in Kinds
      BY <1>3, <3>1 DEF ListOf, Kinds
    <3>3. r.cursor \in Nat /\ r.size \in Nat
      BY RequestsAssumption
    <3>4. D \in Seq(Defs)
      BY <3>1, DefinitionsAreDefs
    <3>5. page = Page(D, r.cursor, r.size)
      BY <1>1, <1>3, <2>3, <2>5, <3>1, AnswerIsBody
    <3>6. PICK e \in Nat : Cut(D, r.cursor, e, page)
      BY <2>5, <3>3, <3>4, <3>5, PageIsCut
    <3>7. PICK l \in Nat : l = Len(D)
      BY <3>4, LenProperties
    <3>8. Len(Registry(registered, kind)) = l
      <4>1. Registry(registered, kind) \in Seq(Capabilities)
        BY RegistryIsSeq
      <4>2. PICK R \in Seq(Capabilities), k \in Nat :
              R = Registry(registered, kind) /\ k = Len(R) /\ DOMAIN R = 1 .. k
        BY <4>1, LenProperties
      <4>3. D = [i \in 1 .. k |-> Definition(R[i])]
        BY <3>1, <4>2 DEF Definitions
      <4>4. Len(D) = k
        BY <4>2, <4>3
      <4>5. QED BY <3>7, <4>2, <4>4
    <3>9. e <= l /\ page.next = (IF e < l THEN e ELSE 0) /\ page.next \in Nat /\ (e = 0 => l = 0)
      BY <3>6, <3>7 DEF Cut, Message
    <3>10. ASSUME NEW items, Begins(items, D, e)
           PROVE  Followed([kind |-> kind, items |-> items, next |-> page.next, size |-> l],
                           registered)
      <4>1. e = IF page.next = 0 THEN l ELSE page.next
        BY <3>7, <3>9
      <4>2. QED BY <3>1, <3>2, <3>7, <3>9, <3>10, <4>1 DEF Followed, Begins
    <3>11. CASE r.cursor = 0
      <4>1. new = [kind |-> kind, items |-> page.items, next |-> page.next, size |-> l]
        BY <1>1, <1>3, <2>3, <2>5, <3>1, <3>8, <3>11 DEF Follow
      <4>2. PICK none : none = << >>
        OBVIOUS
      <4>3. 0 \in Nat /\ Cut(D, 0, e, page) /\ Begins(none, D, 0)
        BY <3>6, <3>11, <4>2, EmptySeq DEF Begins
      <4>4. Begins(none \o page.items, D, e)
        BY <3>4, <4>2, <4>3, PageContinues
      <4>5. none \o page.items = page.items
        <5>1. page.items = SubSeq(D, 0 + 1, e)
          BY <4>3 DEF Cut
        <5>2. \A i \in 1 .. e : D[i] \in Defs
          BY <3>4, <3>7, <3>9, ElementOfSeq
        <5>3. 0 + 1 = 1 /\ 1 \in Int /\ e \in Int
          BY <3>6
        <5>4. page.items \in Seq(Defs)
          BY <5>1, <5>2, <5>3, SubSeqProperties
        <5>5. << >> \o page.items = page.items
          BY <5>4, ConcatEmptySeq
        <5>6. QED BY <4>2, <5>5
      <4>6. QED BY <1>1, <3>10, <4>1, <4>4, <4>5
    <3>12. CASE r.cursor # 0 /\ r.cursor = list.next /\ kind = list.kind
      <4>1. new = [kind |-> kind, items |-> list.items \o page.items, next |-> page.next,
                   size |-> l]
        BY <1>1, <1>3, <2>3, <2>5, <3>1, <3>8, <3>12 DEF Follow
      <4>2. list # NoPages
        BY <3>2, <3>12 DEF NoPages, Kinds
      <4>3. Begins(list.items, D, r.cursor)
        BY <3>1, <3>12, <4>2 DEF Followed, Begins
      <4>4. Begins(list.items \o page.items, D, e)
        BY <3>3, <3>4, <3>6, <4>3, PageContinues
      <4>5. QED BY <1>1, <3>10, <4>1, <4>4
    <3>13. CASE r.cursor # 0 /\ ~(r.cursor = list.next /\ kind = list.kind)
      BY <1>1, <1>3, <2>3, <2>5, <3>1, <3>13 DEF Follow
    <3>14. QED BY <1>1, <3>11, <3>12, <3>13
  <2>6. QED BY <2>4, <2>5
<1>4. QED BY <1>2, <1>3

PagesInv ==
  /\ registered \in Seq(Capabilities)
  /\ request \in [Connections -> Requests] /\ DOMAIN listed = Connections
  /\ \A c \in Connections : Followed(listed[c], registered)

LEMMA PagesInit == Init => PagesInv
<1>1. << >> \in Seq(Capabilities) /\ NoRequest \in Requests
  BY EmptySeq, RequestsAssumption DEF NoRequest
<1>2. QED BY <1>1 DEF Init, PagesInv, Followed

\* A step that answers a request on connection c, or leaves the lists alone.
LEMMA PagesKept ==
  ASSUME PagesInv, registered' = registered, request' \in [Connections -> Requests],
         NEW c \in Connections,
         \/ listed' = listed
         \/ \E r \in Requests, o \in Values :
              listed' = [listed EXCEPT ![c] = Follow(@, r, Answer(r, o).body)]
  PROVE  PagesInv'
<1>1. CASE listed' = listed
  BY <1>1 DEF PagesInv
<1>2. ASSUME NEW r \in Requests, NEW o \in Values,
             listed' = [listed EXCEPT ![c] = Follow(@, r, Answer(r, o).body)]
      PROVE  PagesInv'
  <2>1. PICK list : list = listed[c] /\ Followed(list, registered)
    BY DEF PagesInv
  <2>2. PICK new : new = Follow(list, r, Answer(r, o).body) /\ Followed(new, registered)
    BY <2>1, FollowKeepsLists DEF PagesInv
  <2>3. listed' = [d \in Connections |-> IF d = c THEN new ELSE listed[d]]
    BY <1>2, <2>1, <2>2 DEF PagesInv
  <2>4. QED BY <2>2, <2>3 DEF PagesInv
<1>3. QED BY <1>1, <1>2

LEMMA PagesStep == ASSUME PagesInv, [Next]_vars PROVE PagesInv'
<1>1. registered \in Seq(Capabilities) /\ request \in [Connections -> Requests]
  BY DEF PagesInv
<1>2. NoRequest \in Requests
  BY RequestsAssumption DEF NoRequest
<1>3. ASSUME NEW n \in Capabilities, Register(n) PROVE PagesInv'
  <2>1. UNCHANGED <<request, listed>>
    BY <1>3 DEF Register, httpVars
  <2>2. CASE registered' = registered
    BY <2>1, <2>2 DEF PagesInv
  <2>3. CASE registered' = Append(registered, n)
    <3>1. Append(registered, n) \in Seq(Capabilities)
      BY <1>1, AppendProperties
    <3>2. \A c \in Connections : Followed(listed[c], Append(registered, n))
      BY <1>1, RegisterKeepsLists DEF PagesInv
    <3>3. QED BY <2>1, <2>3, <3>1, <3>2 DEF PagesInv
  <2>4. QED BY <1>3, <2>2, <2>3 DEF Register
<1>4. ASSUME NEW c \in Connections, NEW r \in Requests, Invoke(c, r) PROVE PagesInv'
  <2>1. registered' = registered /\ request' = [request EXCEPT ![c] = r]
    BY <1>4 DEF Invoke
  <2>2. PICK o \in IF Raises(r) THEN {"exit"} ELSE OutcomesNow(r) :
          IF o = "exit" THEN listed' = listed
          ELSE listed' = [listed EXCEPT ![c] = Follow(@, r, Answer(r, o).body)]
    BY <1>4 DEF Invoke
  <2>3. o = "exit" \/ o \in Values
    BY <2>2, OutcomesAreValues
  <2>4. request' \in [Connections -> Requests]
    BY <1>1, <2>1
  <2>5. CASE o = "exit"
    BY <2>1, <2>2, <2>4, <2>5, PagesKept
  <2>6. CASE o # "exit"
    BY <2>1, <2>2, <2>3, <2>4, <2>6, PagesKept
  <2>7. QED BY <2>5, <2>6
<1>5. ASSUME NEW c \in Connections, Handle(c) PROVE PagesInv'
  <2>1. registered' = registered /\ request' = request
    BY <1>5 DEF Handle
  <2>2. PICK r \in Requests : r = request[c]
    BY <1>1
  <2>3. PICK o \in IF Raises(r) THEN {"exit"} ELSE OutcomesNow(r) :
          \/ listed' = listed
          \/ o # "exit" /\ listed' = [listed EXCEPT ![c] = Follow(@, r, Answer(r, o).body)]
    BY <1>5, <2>2 DEF Handle
  <2>4. o = "exit" \/ o \in Values
    BY <2>3, OutcomesAreValues
  <2>5. QED BY <1>1, <2>1, <2>3, <2>4, PagesKept
<1>6. ASSUME NEW c \in Connections, UNCHANGED <<registered, listed>>,
             UNCHANGED request \/ (\E r \in Requests : request' = [request EXCEPT ![c] = r])
      PROVE  PagesInv'
  <2>1. request' \in [Connections -> Requests]
    BY <1>1, <1>6
  <2>2. QED BY <1>6, <2>1, PagesKept
<1>7. ASSUME NEW c \in Connections,
             \/ \E r \in Requests : Accept(c, r)
             \/ \E class \in {"ValueError", "other"} : MiddlewareRaises(c, class)
             \/ SendHead(c) \/ WritePending(c) \/ Take(c) \/ WriteFails(c)
             \/ Disconnect(c) \/ Forget(c) \/ Worker(c)
             \/ Report(c) \/ StartHelper(c) \/ HelperEnds(c)
      PROVE  PagesInv'
  <2>1. /\ UNCHANGED <<registered, listed>>
        /\ UNCHANGED request \/ (\E r \in Requests : request' = [request EXCEPT ![c] = r])
    BY <1>2, <1>7
       DEF Accept, MiddlewareRaises, SendHead, WritePending, Take, WriteFails, Disconnect, Forget,
           Worker, CallTool, Return, LoopCloses, PutDone, Report, StartHelper, HelperEnds,
           toolVars, httpVars
  <2>2. QED BY <1>6, <2>1
<1>8. ASSUME UNCHANGED vars PROVE PagesInv'
  BY <1>8 DEF PagesInv, vars, httpVars
<1>9. QED BY <1>3, <1>4, <1>5, <1>7, <1>8 DEF Next, Thread

\* A client that follows the cursors of a list, with pages of any sizes, over a registry that
\* grows in between, has every definition once and in order, and is told that there are no more
\* only when there are none.
THEOREM ListsAreComplete == Spec => []PagesComplete
<1>1. ASSUME PagesInv PROVE PagesComplete
  <2>1. SUFFICES ASSUME NEW c \in Connections, listed[c] # NoPages
                 PROVE  /\ listed[c].items = SubSeq(Definitions(registered, listed[c].kind), 1,
                                                    Len(listed[c].items))
                        /\ Len(listed[c].items) =
                             IF listed[c].next = 0 THEN listed[c].size ELSE listed[c].next
    BY DEF PagesComplete
  <2>2. PICK list, D : list = listed[c] /\ D = Definitions(registered, list.kind)
    OBVIOUS
  <2>3. PICK items \in Seq(Defs) : items = list.items
    BY <1>1, <2>1, <2>2 DEF PagesInv, Followed
  <2>4. PICK m \in Nat : m = Len(items)
    BY <2>3, LenProperties
  <2>5. /\ D \in Seq(Defs) /\ list.size \in Nat /\ m <= list.size /\ list.size <= Len(D)
        /\ m = IF list.next = 0 THEN list.size ELSE list.next
        /\ \A i \in 1 .. m : items[i] = D[i]
    BY <1>1, <2>1, <2>2, <2>3, <2>4, DefinitionsAreDefs DEF PagesInv, Followed
  <2>6. \A i \in 1 .. m : D[i] \in Defs
    <3>1. PICK l \in Nat : l = Len(D)
      BY <2>5, LenProperties
    <3>2. \A i \in 1 .. m : i \in 1 .. l
      BY <2>5, <3>1
    <3>3. QED BY <2>5, <3>1, <3>2, ElementOfSeq
  <2>7. PICK P : P = SubSeq(D, 1, m)
    OBVIOUS
  <2>8. P \in Seq(Defs) /\ Len(P) = m /\ \A i \in 1 .. m : P[i] = D[i]
    BY <2>6, <2>7, SubSeqProperties
  <2>9. items = P
    BY <2>4, <2>5, <2>8, SeqEqual
  <2>10. QED BY <2>2, <2>3, <2>4, <2>5, <2>7, <2>9
<1>2. QED BY <1>1, PagesInit, PagesStep, PTL DEF Spec
-----------------------------------------------------------------------------
(***************************************************************************)
(* What a stream holds.                                                    *)
(***************************************************************************)
Stages  == {"idle", "accepted", "handled", "writing", "closed", "failed"}
Workers == {"none", "started", "running", "returned", "answered", "ended"}
Ends    == {"answered", "ended"}

Event == [kind : {"progress", "result", "exception", "done"}, messages : Seq(Message)]

ProgressEvent == [kind |-> "progress", messages |-> <<Progress>>]
DoneEvent     == [kind |-> "done", messages |-> << >>]

\* What ends the call of request r.
IsResult(event, r) ==
  \/ event.kind = "exception" /\ event.messages = << >>
  \/ event.kind = "result" /\ Body(event.messages, r, 0)

\* How many of the last events of a queue are no reports, as long as none has been taken.
Owed(w) == IF w = "answered" THEN 1 ELSE IF w = "ended" THEN 2 ELSE 0

Silent(W)    == \A i \in DOMAIN W : ~IsAnswer(W[i])
Asked(W, r)  == \A i \in DOMAIN W : IsAnswer(W[i]) \/ r.token
Proper(W, n) == \A i \in DOMAIN W : IsAnswer(W[i]) => i = Len(W) /\ i = n + 1

Told(W, r, status) ==
  IF r.id THEN \E i \in DOMAIN W : IsAnswer(W[i])
  ELSE \A i \in DOMAIN W : ~IsAnswer(W[i]) \/ W[i].code \in CheckCodes \/ status = 400

\* The call of worker w has no answer yet, or none has been taken from its queue Q: what is in
\* W and in Q are its n reports, except for what W has lost with its client.
Open(w, Q, W, n, lost, r) ==
  /\ Len(Q) >= Owed(w)
  /\ \A i \in 1 .. (Len(Q) - Owed(w)) : Q[i] = ProgressEvent
  /\ w \in Ends => IsResult(Q[Len(Q) - Owed(w) + 1], r)
  /\ w = "ended" => Q[Len(Q)] = DoneEvent
  /\ Silent(W)
  /\ Len(W) + (Len(Q) - Owed(w)) <= n
  /\ lost \/ Len(W) + (Len(Q) - Owed(w)) = n

\* The answer has been taken, and only the end of the stream is left.
Settled(w, Q, W, n, lost, r) ==
  /\ w \in Ends /\ Len(Q) = Owed(w) - 1
  /\ w = "ended" => Q[1] = DoneEvent
  /\ Proper(W, n) /\ Len(W) <= n + 1
  /\ lost \/ Told(W, r, 0)

TypeInv ==
  /\ registered \in Seq(Capabilities)
  /\ stage \in [Connections -> Stages] /\ request \in [Connections -> Requests]
  /\ head \in [Connections -> HeadLine]
  /\ pending \in [Connections -> Seq(Message)] /\ written \in [Connections -> Seq(Message)]
  /\ gone \in [Connections -> BOOLEAN] /\ cancelled \in [Connections -> BOOLEAN]
  /\ worker \in [Connections -> Workers]
  /\ outcome \in [Connections -> Values \cup {"none", "exit"}]
  /\ helper \in [Connections -> {"none", "running", "ended"}]
  /\ queue \in [Connections -> Seq(Event)]
  /\ reports \in [Connections -> 0 .. MaxReports]

\* A call without an answer may still report.
CallInv(c) ==
  /\ helper[c] = "running" => worker[c] \in {"running", "returned"}
  /\ worker[c] = "none" => queue[c] = << >> /\ reports[c] = 0
  /\ worker[c] # "none" =>
       stage[c] \notin {"idle", "accepted"} /\ request[c].method = "tools/call" /\ pending[c] = << >>
  /\ worker[c] \in {"returned"} => outcome[c] # "none"
  /\ reports[c] # 0 => request[c].token

\* Before the response, while its body is written, and after it.
StreamInv(c) ==
  /\ stage[c] \in {"idle", "accepted", "handled"} => written[c] = << >>
  /\ stage[c] \notin {"handled", "writing"} => pending[c] = << >>
  /\ stage[c] \in {"handled", "writing"} /\ worker[c] = "none" =>
       written[c] = << >> /\ Body(pending[c], request[c], head[c].status)
  /\ stage[c] \in {"handled", "writing"} /\ worker[c] # "none" =>
       \/ Open(worker[c], queue[c], written[c], reports[c], gone[c], request[c])
       \/ Settled(worker[c], queue[c], written[c], reports[c], gone[c], request[c])
  /\ Asked(written[c], request[c]) /\ Len(written[c]) <= MaxReports + 1
  /\ stage[c] \in {"closed", "failed"} =>
       \A i \in DOMAIN written[c] : IsAnswer(written[c][i]) =>
         /\ i = Len(written[c])
         /\ head[c].frame = "sse" => i = reports[c] + 1 /\ worker[c] \in {"none"} \cup Ends
  /\ stage[c] = "closed" /\ ~gone[c] => Told(written[c], request[c], head[c].status)

Inv == TypeInv /\ \A c \in Connections : CallInv(c) /\ StreamInv(c)
-----------------------------------------------------------------------------
(***************************************************************************)
(* Putting into and taking from a queue.                                   *)
(***************************************************************************)

LEMMA EventsAreEvents ==
  /\ Progress \in Message /\ ~IsAnswer(Progress)
  /\ ProgressEvent \in Event /\ DoneEvent \in Event
<1>1. << >> \in Seq(Defs) /\ << >> \in Seq(Message) /\ 0 \in Nat /\ "ok" \in Codes
  BY EmptySeq DEF Codes
<1>2. Progress \in Message /\ Progress.kind = "progress"
  BY <1>1 DEF Progress, Message
<1>3. <<Progress>> \in Seq(Message)
  BY <1>2
<1>4. QED BY <1>1, <1>2, <1>3 DEF IsAnswer, ProgressEvent, DoneEvent, Event

LEMMA OwedIsSmall == ASSUME NEW w PROVE Owed(w) \in 0 .. 2 /\ (w \in Ends => Owed(w) # 0)
BY DEF Owed, Ends

LEMMA OpenReports ==
  ASSUME NEW w \in Workers \ Ends, NEW Q \in Seq(Event), NEW W \in Seq(Message), NEW n \in Nat,
         NEW lost, NEW r, Open(w, Q, W, n, lost, r)
  PROVE  Open(w, Append(Q, ProgressEvent), W, n + 1, lost, r)
<1>1. PICK l \in Nat, k \in Nat : l = Len(Q) /\ k = Len(W)
  BY LenProperties
<1>2. PICK P : P = Append(Q, ProgressEvent)
  OBVIOUS
<1>3. Len(P) = l + 1 /\ P[l + 1] = ProgressEvent /\ \A i \in 1 .. l : P[i] = Q[i]
  BY <1>1, <1>2, EventsAreEvents, AppendProperties
<1>4. Owed(w) = 0 /\ w # "ended" /\ w \notin Ends
  BY DEF Owed, Ends
<1>5. /\ \A i \in 1 .. l : Q[i] = ProgressEvent
      /\ Silent(W) /\ k + l <= n /\ (lost \/ k + l = n)
  BY <1>1, <1>4 DEF Open
<1>6. \A i \in 1 .. (l + 1) : P[i] = ProgressEvent
  <2>1. \A i \in 1 .. (l + 1) : i = l + 1 \/ i \in 1 .. l
    BY <1>1
  <2>2. QED BY <1>3, <1>5, <2>1
<1>7. k + (l + 1) <= n + 1 /\ (lost \/ k + (l + 1) = n + 1)
  BY <1>1, <1>5
<1>8. (l + 1) - 0 = l + 1 /\ l + 1 >= 0
  BY <1>1
<1>9. Open(w, P, W, n + 1, lost, r)
  BY <1>1, <1>3, <1>4, <1>5, <1>6, <1>7, <1>8 DEF Open
<1>10. QED BY <1>2, <1>9

LEMMA OpenAnswers ==
  ASSUME NEW w \in Workers \ Ends, NEW Q \in Seq(Event), NEW W \in Seq(Message), NEW n \in Nat,
         NEW lost, NEW r, Open(w, Q, W, n, lost, r), NEW e \in Event, IsResult(e, r)
  PROVE  Open("answered", Append(Q, e), W, n, lost, r)
<1>1. PICK l \in Nat, k \in Nat : l = Len(Q) /\ k = Len(W)
  BY LenProperties
<1>2. PICK P : P = Append(Q, e)
  OBVIOUS
<1>3. Len(P) = l + 1 /\ P[l + 1] = e /\ \A i \in 1 .. l : P[i] = Q[i]
  BY <1>1, <1>2, AppendProperties
<1>4. Owed(w) = 0 /\ Owed("answered") = 1
  BY DEF Owed, Ends
<1>5. /\ \A i \in 1 .. l : Q[i] = ProgressEvent
      /\ Silent(W) /\ k + l <= n /\ (lost \/ k + l = n)
  BY <1>1, <1>4 DEF Open
<1>6. (l + 1) - 1 = l /\ l + 1 >= 1
  BY <1>1
<1>7. Open("answered", P, W, n, lost, r)
  BY <1>1, <1>3, <1>4, <1>5, <1>6 DEF Open
<1>8. QED BY <1>2, <1>7

LEMMA OpenEnds ==
  ASSUME NEW Q \in Seq(Event), NEW W \in Seq(Message), NEW n \in Nat,
         NEW lost, NEW r, Open("answered", Q, W, n, lost, r)
  PROVE  Open("ended", Append(Q, DoneEvent), W, n, lost, r)
<1>1. PICK l \in Nat, k \in Nat : l = Len(Q) /\ k = Len(W)
  BY LenProperties
<1>2. PICK P : P = Append(Q, DoneEvent)
  OBVIOUS
<1>3. Len(P) = l + 1 /\ P[l + 1] = DoneEvent /\ \A i \in 1 .. l : P[i] = Q[i]
  BY <1>1, <1>2, EventsAreEvents, AppendProperties
<1>4. Owed("answered") = 1 /\ Owed("ended") = 2 /\ "answered" \in Ends
  BY DEF Owed, Ends
<1>5. /\ l >= 1 /\ \A i \in 1 .. (l - 1) : Q[i] = ProgressEvent
      /\ IsResult(Q[l - 1 + 1], r)
      /\ Silent(W) /\ k + (l - 1) <= n /\ (lost \/ k + (l - 1) = n)
  BY <1>1, <1>4 DEF Open
<1>6. (l + 1) - 2 = l - 1 /\ l + 1 >= 2 /\ l - 1 + 1 = l /\ l \in 1 .. l
      /\ (1 .. (l - 1)) \subseteq 1 .. l
  BY <1>1, <1>5
<1>7. \A i \in 1 .. (l - 1) : P[i] = ProgressEvent
  BY <1>3, <1>5, <1>6
<1>8. IsResult(P[l - 1 + 1], r)
  BY <1>3, <1>5, <1>6
<1>9. Open("ended", P, W, n, lost, r)
  BY <1>1, <1>3, <1>4, <1>5, <1>6, <1>7, <1>8 DEF Open
<1>10. QED BY <1>2, <1>9

LEMMA SettledEnds ==
  ASSUME NEW Q \in Seq(Event), NEW W, NEW n, NEW lost, NEW r,
         Settled("answered", Q, W, n, lost, r)
  PROVE  Settled("ended", Append(Q, DoneEvent), W, n, lost, r)
<1>1. Len(Q) = 0 /\ Proper(W, n) /\ Len(W) <= n + 1 /\ (lost \/ Told(W, r, 0))
  BY DEF Settled, Owed
<1>2. PICK P : P = Append(Q, DoneEvent)
  OBVIOUS
<1>3. Len(P) = 1 /\ P[1] = DoneEvent
  BY <1>1, <1>2, EventsAreEvents, AppendProperties
<1>4. Settled("ended", P, W, n, lost, r)
  BY <1>1, <1>3 DEF Settled, Owed, Ends
<1>5. QED BY <1>2, <1>4

LEMMA LoseClient ==
  ASSUME NEW w, NEW Q, NEW W, NEW n, NEW lost, NEW r
  PROVE  /\ Open(w, Q, W, n, lost, r) => Open(w, Q, W, n, TRUE, r)
         /\ Settled(w, Q, W, n, lost, r) => Settled(w, Q, W, n, TRUE, r)
BY DEF Open, Settled

\* What the client gets when M is written.
Gets(W, M, lost) == IF lost THEN W ELSE W \o M

LEMMA TakeReport ==
  ASSUME NEW w, NEW Q \in Seq(Event), NEW W \in Seq(Message), NEW n \in Nat,
         NEW lost \in BOOLEAN, NEW r, Open(w, Q, W, n, lost, r), Len(Q) > Owed(w)
  PROVE  /\ Head(Q) = ProgressEvent /\ n # 0
         /\ Open(w, Tail(Q), Gets(W, <<Progress>>, lost), n, lost, r)
         /\ Len(Gets(W, <<Progress>>, lost)) <= n
<1>1. PICK l \in Nat, k \in Nat, o \in 0 .. 2 : l = Len(Q) /\ k = Len(W) /\ o = Owed(w)
  BY LenProperties, OwedIsSmall
<1>2. /\ l > o /\ \A i \in 1 .. (l - o) : Q[i] = ProgressEvent
      /\ w \in Ends => IsResult(Q[l - o + 1], r)
      /\ w = "ended" => Q[l] = DoneEvent
      /\ Silent(W) /\ k + (l - o) <= n /\ (lost \/ k + (l - o) = n)
  BY <1>1 DEF Open
<1>3. 1 \in 1 .. (l - o) /\ n # 0 /\ Q # << >>
  <2>1. l # 0
    BY <1>1, <1>2
  <2>2. QED BY <1>1, <1>2, <2>1, EmptySeq
<1>4. Head(Q) = ProgressEvent
  BY <1>2, <1>3
<1>5. PICK T : T = Tail(Q)
  OBVIOUS
<1>6. Len(T) = l - 1 /\ \A i \in 1 .. (l - 1) : T[i] = Q[i + 1]
  BY <1>1, <1>3, <1>5, HeadTailProperties
<1>7. PICK V : V = Gets(W, <<Progress>>, lost)
  OBVIOUS
<1>8. Silent(V) /\ \E v \in {k, k + 1} : Len(V) = v /\ (lost => v = k) /\ (~lost => v = k + 1)
  <2>1. CASE lost
    BY <1>1, <1>2, <1>7, <2>1 DEF Gets
  <2>2. CASE ~lost
    <3>1. <<Progress>> \in Seq(Message) /\ Len(<<Progress>>) = 1 /\ <<Progress>>[1] = Progress
      BY EventsAreEvents
    <3>2. V = W \o <<Progress>>
      BY <1>7, <2>2 DEF Gets
    <3>3. /\ V \in Seq(Message) /\ Len(V) = k + 1
          /\ \A i \in 1 .. (k + 1) : V[i] = IF i <= k THEN W[i] ELSE <<Progress>>[i - k]
      BY <1>1, <3>1, <3>2, ConcatProperties
    <3>4. DOMAIN V = 1 .. (k + 1) /\ DOMAIN W = 1 .. k
      BY <1>1, <3>3, LenProperties
    <3>5. ASSUME NEW i \in 1 .. (k + 1) PROVE ~IsAnswer(V[i])
      <4>1. CASE i <= k
        BY <1>2, <3>3, <3>4, <3>5, <4>1 DEF Silent
      <4>2. CASE ~(i <= k)
        <5>1. i - k = 1
          BY <1>1, <3>5, <4>2
        <5>2. V[i] = Progress
          BY <3>1, <3>3, <3>5, <4>2, <5>1
        <5>3. QED BY <5>2, EventsAreEvents
      <4>3. QED BY <4>1, <4>2
    <3>6. Silent(V)
      BY <3>4, <3>5 DEF Silent
    <3>7. QED BY <1>1, <2>2, <3>3, <3>6
  <2>3. QED BY <2>1, <2>2
<1>9. \A i \in 1 .. ((l - 1) - o) : T[i] = ProgressEvent
  <2>1. ASSUME NEW i \in 1 .. ((l - 1) - o) PROVE T[i] = ProgressEvent
    <3>1. i \in 1 .. (l - 1) /\ i + 1 \in 1 .. (l - o)
      BY <1>1, <2>1
    <3>2. QED BY <1>2, <1>6, <3>1
  <2>2. QED BY <2>1
<1>10. w \in Ends => IsResult(T[(l - 1) - o + 1], r)
  <2>1. ASSUME w \in Ends PROVE IsResult(T[(l - 1) - o + 1], r)
    <3>1. o # 0
      BY <1>1, <2>1, OwedIsSmall
    <3>2. (l - 1) - o + 1 \in 1 .. (l - 1) /\ ((l - 1) - o + 1) + 1 = l - o + 1
      BY <1>1, <1>2, <3>1
    <3>3. T[(l - 1) - o + 1] = Q[l - o + 1]
      BY <1>6, <3>2
    <3>4. QED BY <1>2, <2>1, <3>3
  <2>2. QED BY <2>1
<1>11. w = "ended" => T[l - 1] = DoneEvent
  <2>1. ASSUME w = "ended" PROVE T[l - 1] = DoneEvent
    <3>1. o = 2
      BY <1>1, <2>1 DEF Owed
    <3>2. l - 1 \in 1 .. (l - 1) /\ (l - 1) + 1 = l
      BY <1>1, <1>2, <3>1
    <3>3. QED BY <1>2, <1>6, <2>1, <3>2
  <2>2. QED BY <2>1
<1>12. PICK v \in Nat : Len(V) = v /\ (lost => v = k) /\ (~lost => v = k + 1)
  BY <1>1, <1>8
<1>13. v + ((l - 1) - o) <= n /\ v <= n /\ l - 1 >= o
  <2>1. l - 1 >= o /\ k + (l - o) <= n
    BY <1>1, <1>2
  <2>2. v = k \/ v = k + 1
    BY <1>12
  <2>3. QED BY <1>1, <2>1, <2>2
<1>14. lost \/ v + ((l - 1) - o) = n
  <2>1. CASE ~lost
    <3>1. v = k + 1 /\ k + (l - o) = n
      BY <1>2, <1>12, <2>1
    <3>2. QED BY <1>1, <3>1
  <2>2. QED BY <2>1
<1>15. Open(w, T, V, n, lost, r)
  BY <1>1, <1>8, <1>9, <1>10, <1>11, <1>12, <1>6, <1>13, <1>14 DEF Open
<1>16. QED BY <1>3, <1>4, <1>5, <1>12, <1>15, <1>7, <1>13

LEMMA TakeResult ==
  ASSUME NEW w, NEW Q \in Seq(Event), NEW W \in Seq(Message), NEW n \in Nat,
         NEW lost \in BOOLEAN, NEW r \in Requests, Open(w, Q, W, n, lost, r), Len(Q) = Owed(w),
         Q # << >>
  PROVE  /\ w \in Ends /\ IsResult(Head(Q), r)
         /\ Head(Q).kind = "result" =>
              Settled(w, Tail(Q), Gets(W, Head(Q).messages, lost), n, lost, r)
<1>1. PICK l \in Nat, k \in Nat, o \in 0 .. 2 : l = Len(Q) /\ k = Len(W) /\ o = Owed(w)
  BY LenProperties, OwedIsSmall
<1>2. l = o /\ l # 0
  BY <1>1, EmptySeq
<1>3. w \in Ends /\ 1 \in 1 .. l
  BY <1>1, <1>2 DEF Owed, Ends
<1>4. /\ IsResult(Q[1], r) /\ (w = "ended" => Q[l] = DoneEvent)
      /\ Silent(W) /\ k <= n /\ (lost \/ k = n)
  <2>1. l - o + 1 = 1 /\ k + (l - o) = k
    BY <1>1, <1>2
  <2>2. QED BY <1>1, <1>3, <2>1 DEF Open
<1>5. Head(Q) = Q[1]
  OBVIOUS
<1>6. ASSUME Q[1].kind = "result"
      PROVE  Settled(w, Tail(Q), Gets(W, Q[1].messages, lost), n, lost, r)
  <2>1. PICK M : M = Q[1].messages
    OBVIOUS
  <2>2. Body(M, r, 0)
    BY <1>4, <1>6, <2>1 DEF IsResult
  <2>3. PICK T : T = Tail(Q)
    OBVIOUS
  <2>4. T = Tail(Q) /\ Len(T) = l - 1 /\ \A i \in 1 .. (l - 1) : T[i] = Q[i + 1]
    BY <1>1, <2>3, HeadTailProperties
  <2>5. w = "ended" => T[1] = DoneEvent
    <3>1. w = "ended" => l = 2
      BY <1>1, <1>2 DEF Owed
    <3>2. l = 2 => 1 \in 1 .. (l - 1) /\ 1 + 1 = l
      OBVIOUS
    <3>3. w = "ended" => T[1] = Q[1 + 1]
      BY <2>4, <3>1, <3>2
    <3>4. QED BY <1>4, <3>1, <3>2, <3>3
  <2>6. PICK V : V = Gets(W, M, lost)
    OBVIOUS
  <2>7. DOMAIN W = 1 .. k
    BY <1>1, LenProperties
  <2>8. CASE lost \/ M = << >>
    <3>1. V = W
      <4>1. W \o << >> = W
        BY ConcatEmptySeq
      <4>2. QED BY <2>6, <2>8, <4>1 DEF Gets
    <3>2. Proper(V, n) /\ Len(V) <= n + 1
      BY <1>1, <1>4, <3>1 DEF Proper, Silent
    <3>3. lost \/ Told(V, r, 0)
      BY <1>4, <2>2, <2>8, <3>1, RequestsAssumption DEF Told, Silent, Body
    <3>4. Settled(w, T, V, n, lost, r)
      BY <1>1, <1>2, <1>3, <2>4, <2>5, <3>2, <3>3 DEF Settled
    <3>5. QED BY <2>1, <2>4, <2>6, <3>4
  <2>9. CASE ~lost /\ M # << >>
    <3>1. PICK m \in Message : M = <<m>> /\ IsAnswer(m)
      BY <2>2, <2>9 DEF Body
    <3>2. V = W \o <<m>> /\ <<m>> \in Seq(Message) /\ Len(<<m>>) = 1 /\ <<m>>[1] = m
      BY <2>6, <2>9, <3>1 DEF Gets
    <3>3. /\ V \in Seq(Message) /\ Len(V) = k + 1
          /\ \A i \in 1 .. (k + 1) : V[i] = IF i <= k THEN W[i] ELSE <<m>>[i - k]
      BY <1>1, <3>2, ConcatProperties
    <3>4. DOMAIN V = 1 .. (k + 1)
      BY <3>3, LenProperties
    <3>5. V[k + 1] = m /\ k = n /\ k + 1 \in 1 .. (k + 1)
      <4>1. k + 1 \in 1 .. (k + 1) /\ ~(k + 1 <= k) /\ (k + 1) - k = 1
        BY <1>1
      <4>2. V[k + 1] = <<m>>[1]
        BY <3>3, <4>1
      <4>3. QED BY <1>4, <2>9, <3>2, <4>1, <4>2
    <3>6. ASSUME NEW i \in 1 .. (k + 1), i # k + 1 PROVE ~IsAnswer(V[i])
      <4>1. i <= k /\ i \in 1 .. k
        BY <1>1, <3>6
      <4>2. QED BY <1>4, <2>7, <3>3, <3>6, <4>1 DEF Silent
    <3>7. Proper(V, n)
      BY <3>3, <3>4, <3>5, <3>6 DEF Proper
    <3>8. ~r.id => m.code \in CheckCodes
      <4>1. DOMAIN M = {1} /\ M[1] = m
        BY <3>1
      <4>2. QED BY <2>2, <4>1 DEF Body
    <3>9. Told(V, r, 0)
      BY <3>1, <3>4, <3>5, <3>6, <3>8 DEF Told
    <3>10. Len(V) <= n + 1
      BY <1>1, <3>3, <3>5
    <3>11. Settled(w, T, V, n, lost, r)
      BY <1>1, <1>2, <1>3, <2>4, <2>5, <3>7, <3>9, <3>10 DEF Settled
    <3>12. QED BY <2>1, <2>4, <2>6, <3>11
  <2>10. QED BY <2>8, <2>9
<1>7. QED BY <1>3, <1>4, <1>5, <1>6
-----------------------------------------------------------------------------
(***************************************************************************)
(* Steps.  Each one changes what belongs to one connection.                *)
(***************************************************************************)
Same(d) ==
  /\ stage'[d] = stage[d] /\ request'[d] = request[d] /\ head'[d] = head[d]
  /\ pending'[d] = pending[d] /\ written'[d] = written[d] /\ gone'[d] = gone[d]
  /\ worker'[d] = worker[d] /\ outcome'[d] = outcome[d] /\ helper'[d] = helper[d]
  /\ queue'[d] = queue[d] /\ reports'[d] = reports[d]

StepKeeps(c) ==
  /\ TypeInv' /\ CallInv(c)' /\ StreamInv(c)'
  /\ \A d \in Connections \ {c} : Same(d)

LEMMA Stays ==
  ASSUME NEW d, CallInv(d), StreamInv(d), Same(d)
  PROVE  CallInv(d)' /\ StreamInv(d)'
BY DEF Same, CallInv, StreamInv

LEMMA InvKept ==
  ASSUME Inv, NEW c \in Connections, StepKeeps(c) PROVE Inv'
<1>1. ASSUME NEW d \in Connections PROVE CallInv(d)' /\ StreamInv(d)'
  <2>1. CASE d = c
    BY <2>1 DEF StepKeeps
  <2>2. CASE d # c
    BY <2>2, Stays DEF StepKeeps, Inv
  <2>3. QED BY <2>1, <2>2
<1>2. QED BY <1>1 DEF StepKeeps, Inv

LEMMA WriteTypes ==
  ASSUME TypeInv, NEW c \in Connections, NEW M \in Seq(Message), Write(c, M)
  PROVE  /\ written' \in [Connections -> Seq(Message)]
         /\ written'[c] = Gets(written[c], M, gone[c])
         /\ \A d \in Connections \ {c} : written'[d] = written[d]
<1>1. PICK V : V = Gets(written[c], M, gone[c])
  OBVIOUS
<1>2. V \in Seq(Message)
  BY <1>1, ConcatProperties DEF TypeInv, Gets
<1>3. written' = [written EXCEPT ![c] = V]
  BY <1>1 DEF Write, Gets, TypeInv
<1>4. QED BY <1>1, <1>2, <1>3 DEF TypeInv

LEMMA PutTypes ==
  ASSUME TypeInv, NEW c \in Connections, NEW kind \in {"progress", "result", "exception", "done"},
         NEW M \in Seq(Message), Put(c, kind, M)
  PROVE  /\ queue' \in [Connections -> Seq(Event)]
         /\ queue'[c] = Append(queue[c], [kind |-> kind, messages |-> M])
         /\ \A d \in Connections \ {c} : queue'[d] = queue[d]
<1>1. PICK e : e = [kind |-> kind, messages |-> M]
  OBVIOUS
<1>2. e \in Event
  BY <1>1 DEF Event
<1>3. Append(queue[c], e) \in Seq(Event)
  BY <1>2, AppendProperties DEF TypeInv
<1>4. queue' = [queue EXCEPT ![c] = Append(queue[c], e)]
  BY <1>1 DEF Put, TypeInv
<1>5. QED BY <1>1, <1>3, <1>4 DEF TypeInv

\* A message of its own, written to a client that has had none.
LEMMA RejectTypes ==
  ASSUME TypeInv, NEW c \in Connections, NEW status \in {400, 404, 413}, Reject(c, status),
         written[c] = << >>
  PROVE  /\ head' \in [Connections -> HeadLine] /\ stage' \in [Connections -> Stages]
         /\ written' \in [Connections -> Seq(Message)]
         /\ head'[c].frame = "json" /\ stage'[c] = "closed"
         /\ \/ gone[c] /\ written'[c] = << >>
            \/ ~gone[c] /\ \E m \in Message :
                 written'[c] = <<m>> /\ IsAnswer(m) /\ m.code \in CheckCodes
         /\ \A d \in Connections \ {c} :
              written'[d] = written[d] /\ head'[d] = head[d] /\ stage'[d] = stage[d]
<1>1. NotJsonRpc \in Message /\ IsAnswer(NotJsonRpc) /\ NotJsonRpc.code = "plain"
  BY FailureIsMessage DEF NotJsonRpc, IsAnswer
<1>2. <<NotJsonRpc>> \in Seq(Message) /\ "plain" \in CheckCodes
  BY <1>1 DEF CheckCodes
<1>3. Write(c, <<NotJsonRpc>>)
  BY DEF Reject
<1>4. /\ written' \in [Connections -> Seq(Message)]
      /\ written'[c] = Gets(written[c], <<NotJsonRpc>>, gone[c])
      /\ \A d \in Connections \ {c} : written'[d] = written[d]
  BY <1>2, <1>3, WriteTypes
<1>5. \/ gone[c] /\ written'[c] = << >>
      \/ ~gone[c] /\ written'[c] = <<NotJsonRpc>>
  <2>1. << >> \o <<NotJsonRpc>> = <<NotJsonRpc>>
    BY <1>2, ConcatEmptySeq
  <2>2. PICK V : V = written[c] /\ V = << >>
    OBVIOUS
  <2>3. CASE gone[c]
    BY <1>4, <2>2, <2>3 DEF Gets
  <2>4. CASE ~gone[c]
    <3>1. written'[c] = V \o <<NotJsonRpc>>
      BY <1>4, <2>2, <2>4 DEF Gets
    <3>2. QED BY <2>1, <2>2, <2>4, <3>1
  <2>5. QED BY <2>3, <2>4
<1>6. PICK line : line = StatusLine(status, "json")
  OBVIOUS
<1>7. line \in HeadLine /\ line.frame = "json"
  BY <1>6 DEF StatusLine, HeadLine, Statuses, Frames
<1>8. head' = [head EXCEPT ![c] = line] /\ stage' = [stage EXCEPT ![c] = "closed"]
  BY <1>6 DEF Reject
<1>9. /\ head' \in [Connections -> HeadLine] /\ stage' \in [Connections -> Stages]
      /\ head'[c].frame = "json" /\ stage'[c] = "closed"
      /\ \A d \in Connections \ {c} : head'[d] = head[d] /\ stage'[d] = stage[d]
  BY <1>7, <1>8 DEF TypeInv, Stages
<1>10. QED BY <1>1, <1>2, <1>4, <1>5, <1>9

LEMMA EmptyIsFine ==
  ASSUME NEW r, NEW W, W = << >>
  PROVE  /\ Asked(W, r) /\ Silent(W) /\ Len(W) = 0 /\ Len(W) <= MaxReports + 1
         /\ \A i \in DOMAIN W : FALSE
<1>1. MaxReports \in Nat
  BY RequestsAssumption
<1>2. QED BY <1>1, EmptySeq DEF Asked, Silent

LEMMA SingleIsFine ==
  ASSUME NEW r \in Requests, NEW m, IsAnswer(m), NEW status, NEW W, W = <<m>>,
         ~r.id => m.code \in CheckCodes \/ status = 400
  PROVE  /\ Asked(W, r) /\ Told(W, r, status) /\ Len(W) <= MaxReports + 1
         /\ \A i \in DOMAIN W : i = 1 /\ i = Len(W)
<1>1. DOMAIN W = {1} /\ W[1] = m /\ Len(W) = 1
  OBVIOUS
<1>2. MaxReports \in Nat
  BY RequestsAssumption
<1>3. QED BY <1>1, <1>2 DEF Asked, Told

LEMMA BodyIsFine ==
  ASSUME NEW r \in Requests, NEW status, NEW W, Body(W, r, status)
  PROVE  /\ Asked(W, r) /\ Told(W, r, status) /\ Len(W) <= MaxReports + 1 /\ W \in Seq(Message)
         /\ \A i \in DOMAIN W : i = 1 /\ i = Len(W)
<1>1. CASE W = << >>
  <2>1. ~r.id
    BY <1>1, RequestsAssumption DEF Body
  <2>2. QED BY <1>1, <2>1, EmptyIsFine DEF Told, Body
<1>2. CASE W # << >>
  <2>1. PICK m \in Message : W = <<m>> /\ IsAnswer(m)
    BY <1>2 DEF Body
  <2>2. DOMAIN W = {1} /\ W[1] = m
    BY <2>1
  <2>3. ~r.id => m.code \in CheckCodes \/ status = 400
    BY <2>2 DEF Body
  <2>4. QED BY <2>1, <2>3, SingleIsFine DEF Body
<1>3. QED BY <1>1, <1>2
-----------------------------------------------------------------------------
LEMMA InvokeStep ==
  ASSUME Inv, NEW c \in Connections, NEW r \in Requests, Invoke(c, r) PROVE StepKeeps(c)
<1>1. /\ TypeInv /\ CallInv(c) /\ StreamInv(c) /\ stage[c] = "idle"
      /\ request' = [request EXCEPT ![c] = r]
      /\ UNCHANGED <<registered, pending, gone, worker, outcome, helper, queue, reports, cancelled>>
  BY DEF Inv, Invoke, workerVars
<1>2. PICK o \in IF Raises(r) THEN {"exit"} ELSE OutcomesNow(r) :
        /\ stage' = [stage EXCEPT ![c] = IF o = "exit" THEN "failed" ELSE "closed"]
        /\ IF o = "exit" THEN UNCHANGED <<head, written>>
           ELSE /\ head' = [head EXCEPT ![c] = Answer(r, o).head]
                /\ written' = [written EXCEPT ![c] = Answer(r, o).body]
  BY DEF Invoke
<1>3. /\ worker[c] = "none" /\ written[c] = << >> /\ pending[c] = << >> /\ reports[c] = 0
      /\ helper[c] # "running" /\ queue[c] = << >>
  BY <1>1 DEF CallInv, StreamInv
<1>4. request' \in [Connections -> Requests] /\ request'[c] = r
      /\ \A d \in Connections \ {c} : request'[d] = request[d]
  BY <1>1 DEF TypeInv
<1>5. CallInv(c)'
  BY <1>1, <1>3 DEF CallInv
<1>6. CASE o = "exit"
  <2>1. TypeInv' /\ \A d \in Connections \ {c} : Same(d)
    BY <1>1, <1>2, <1>4, <1>6 DEF TypeInv, Same, Stages
  <2>2. stage'[c] = "failed" /\ written'[c] = << >> /\ pending'[c] = << >>
    BY <1>1, <1>2, <1>3, <1>6 DEF TypeInv
  <2>3. StreamInv(c)'
    BY <2>2, EmptyIsFine DEF StreamInv
  <2>4. QED BY <1>5, <2>1, <2>3 DEF StepKeeps
<1>7. CASE o # "exit"
  <2>1. o \in Values
    BY <1>2, <1>7, OutcomesAreValues
  <2>2. PICK a : a = Answer(r, o)
    OBVIOUS
  <2>3. a.head \in HeadLine /\ Body(a.body, r, a.head.status)
    BY <1>1, <2>1, <2>2, AnswerIsBody DEF TypeInv
  <2>4. a.body \in Seq(Message)
    BY <2>3 DEF Body
  <2>5. /\ head' = [head EXCEPT ![c] = a.head] /\ written' = [written EXCEPT ![c] = a.body]
        /\ stage' = [stage EXCEPT ![c] = "closed"]
    BY <1>2, <1>7, <2>2
  <2>6. TypeInv' /\ \A d \in Connections \ {c} : Same(d)
    BY <1>1, <1>4, <2>3, <2>4, <2>5 DEF TypeInv, Same, Stages
  <2>7. stage'[c] = "closed" /\ written'[c] = a.body /\ pending'[c] = << >> /\ head'[c] = a.head
    BY <1>1, <1>3, <2>5 DEF TypeInv
  <2>8. /\ Asked(a.body, r) /\ Told(a.body, r, a.head.status) /\ Len(a.body) <= MaxReports + 1
        /\ \A i \in DOMAIN a.body : i = 1 /\ i = Len(a.body)
    BY <2>3, BodyIsFine
  <2>9. reports'[c] = 0 /\ worker'[c] = "none" /\ 1 = 0 + 1
    BY <1>1, <1>3
  <2>10. StreamInv(c)'
    BY <1>4, <2>7, <2>8, <2>9 DEF StreamInv
  <2>11. QED BY <1>5, <2>6, <2>10 DEF StepKeeps
<1>8. QED BY <1>6, <1>7

LEMMA AcceptStep ==
  ASSUME Inv, NEW c \in Connections, NEW r \in Requests, Accept(c, r) PROVE StepKeeps(c)
<1>1. /\ TypeInv /\ CallInv(c) /\ StreamInv(c) /\ stage[c] = "idle"
      /\ request' = [request EXCEPT ![c] = r]
      /\ UNCHANGED <<registered, pending, gone, worker, outcome, helper, queue, reports, cancelled>>
  BY DEF Inv, Accept, workerVars
<1>2. \/ \E status \in {400, 404, 413} : Reject(c, status)
      \/ stage' = [stage EXCEPT ![c] = "accepted"] /\ UNCHANGED <<head, written>>
  BY DEF Accept
<1>3. /\ worker[c] = "none" /\ written[c] = << >> /\ pending[c] = << >> /\ reports[c] = 0
      /\ helper[c] # "running" /\ queue[c] = << >>
  BY <1>1 DEF CallInv, StreamInv
<1>4. request' \in [Connections -> Requests] /\ request'[c] = r
      /\ \A d \in Connections \ {c} : request'[d] = request[d]
  BY <1>1 DEF TypeInv
<1>5. CallInv(c)'
  BY <1>1, <1>3 DEF CallInv
<1>6. CASE stage' = [stage EXCEPT ![c] = "accepted"] /\ UNCHANGED <<head, written>>
  <2>1. TypeInv' /\ \A d \in Connections \ {c} : Same(d)
    BY <1>1, <1>4, <1>6 DEF TypeInv, Same, Stages
  <2>2. stage'[c] = "accepted" /\ written'[c] = << >> /\ pending'[c] = << >>
    BY <1>1, <1>3, <1>6 DEF TypeInv
  <2>3. StreamInv(c)'
    BY <2>2, EmptyIsFine DEF StreamInv
  <2>4. QED BY <1>5, <2>1, <2>3 DEF StepKeeps
<1>7. ASSUME NEW status \in {400, 404, 413}, Reject(c, status) PROVE StepKeeps(c)
  <2>1. /\ head' \in [Connections -> HeadLine] /\ stage' \in [Connections -> Stages]
        /\ written' \in [Connections -> Seq(Message)]
        /\ head'[c].frame = "json" /\ stage'[c] = "closed"
        /\ \/ gone[c] /\ written'[c] = << >>
           \/ ~gone[c] /\ \E m \in Message :
                written'[c] = <<m>> /\ IsAnswer(m) /\ m.code \in CheckCodes
        /\ \A d \in Connections \ {c} :
             written'[d] = written[d] /\ head'[d] = head[d] /\ stage'[d] = stage[d]
    BY <1>1, <1>3, <1>7, RejectTypes
  <2>2. TypeInv' /\ \A d \in Connections \ {c} : Same(d)
    BY <1>1, <1>4, <2>1 DEF TypeInv, Same
  <2>3. pending'[c] = << >> /\ gone'[c] = gone[c]
    BY <1>1, <1>3
  <2>4. StreamInv(c)'
    <3>1. CASE gone[c] /\ written'[c] = << >>
      BY <2>1, <2>3, <3>1, EmptyIsFine DEF StreamInv
    <3>2. CASE ~gone[c]
      <4>1. PICK m \in Message : written'[c] = <<m>> /\ IsAnswer(m) /\ m.code \in CheckCodes
        BY <2>1, <3>2
      <4>2. PICK W, st : W = written'[c] /\ st = head'[c].status
        OBVIOUS
      <4>3. /\ Asked(W, r) /\ Told(W, r, st) /\ Len(W) <= MaxReports + 1
            /\ \A i \in DOMAIN W : i = 1 /\ i = Len(W)
        BY <4>1, <4>2, SingleIsFine
      <4>4. QED BY <1>4, <2>1, <2>3, <4>2, <4>3 DEF StreamInv
    <3>3. QED BY <2>1, <3>1, <3>2
  <2>5. QED BY <1>5, <2>2, <2>4 DEF StepKeeps
<1>8. QED BY <1>2, <1>6, <1>7

LEMMA RaisesStep ==
  ASSUME Inv, NEW c \in Connections, NEW class, MiddlewareRaises(c, class) PROVE StepKeeps(c)
<1>1. /\ TypeInv /\ CallInv(c) /\ StreamInv(c) /\ stage[c] \in {"accepted", "handled"}
      /\ pending' = [pending EXCEPT ![c] = << >>]
      /\ UNCHANGED <<registered, request, gone, worker, outcome, helper, queue, reports, cancelled>>
  BY DEF Inv, MiddlewareRaises, workerVars
<1>2. \/ Reject(c, 400)
      \/ /\ stage' = [stage EXCEPT ![c] = "failed"] /\ head' = [head EXCEPT ![c] = NoHead]
         /\ UNCHANGED written
  BY DEF MiddlewareRaises
<1>3. written[c] = << >>
  BY <1>1 DEF StreamInv
<1>4. /\ pending' \in [Connections -> Seq(Message)] /\ pending'[c] = << >>
      /\ \A d \in Connections \ {c} : pending'[d] = pending[d]
  BY <1>1, EmptySeq DEF TypeInv
<1>5. request[c] \in Requests
  BY <1>1 DEF TypeInv
<1>6. CASE /\ stage' = [stage EXCEPT ![c] = "failed"] /\ head' = [head EXCEPT ![c] = NoHead]
           /\ UNCHANGED written
  <2>1. NoHead \in HeadLine
    BY DEF NoHead, StatusLine, HeadLine, Statuses, Frames
  <2>2. TypeInv' /\ \A d \in Connections \ {c} : Same(d)
    BY <1>1, <1>4, <1>6, <2>1 DEF TypeInv, Same, Stages
  <2>3. stage'[c] = "failed" /\ written'[c] = << >>
    BY <1>1, <1>3, <1>6 DEF TypeInv
  <2>4. StreamInv(c)'
    BY <1>4, <2>3, EmptyIsFine DEF StreamInv
  <2>5. CallInv(c)'
    BY <1>1, <1>4, <2>3 DEF CallInv
  <2>6. QED BY <2>2, <2>4, <2>5 DEF StepKeeps
<1>7. CASE Reject(c, 400)
  <2>1. /\ head' \in [Connections -> HeadLine] /\ stage' \in [Connections -> Stages]
        /\ written' \in [Connections -> Seq(Message)]
        /\ head'[c].frame = "json" /\ stage'[c] = "closed"
        /\ \/ gone[c] /\ written'[c] = << >>
           \/ ~gone[c] /\ \E m \in Message :
                written'[c] = <<m>> /\ IsAnswer(m) /\ m.code \in CheckCodes
        /\ \A d \in Connections \ {c} :
             written'[d] = written[d] /\ head'[d] = head[d] /\ stage'[d] = stage[d]
    BY <1>1, <1>3, <1>7, RejectTypes
  <2>2. TypeInv' /\ \A d \in Connections \ {c} : Same(d)
    BY <1>1, <1>4, <2>1 DEF TypeInv, Same
  <2>3. StreamInv(c)'
    <3>1. CASE gone[c] /\ written'[c] = << >>
      BY <1>1, <1>4, <2>1, <3>1, EmptyIsFine DEF StreamInv
    <3>2. CASE ~gone[c]
      <4>1. PICK m \in Message : written'[c] = <<m>> /\ IsAnswer(m) /\ m.code \in CheckCodes
        BY <2>1, <3>2
      <4>2. PICK W, st, r : W = written'[c] /\ st = head'[c].status /\ r = request[c]
        OBVIOUS
      <4>3. /\ Asked(W, r) /\ Told(W, r, st) /\ Len(W) <= MaxReports + 1
            /\ \A i \in DOMAIN W : i = 1 /\ i = Len(W)
        BY <1>5, <4>1, <4>2, SingleIsFine
      <4>4. QED BY <1>1, <1>4, <2>1, <4>2, <4>3 DEF StreamInv
    <3>3. QED BY <2>1, <3>1, <3>2
  <2>4. CallInv(c)'
    BY <1>1, <1>4, <2>1 DEF CallInv
  <2>5. QED BY <2>2, <2>3, <2>4 DEF StepKeeps
<1>8. QED BY <1>2, <1>6, <1>7

LEMMA HandleStep ==
  ASSUME Inv, NEW c \in Connections, Handle(c) PROVE StepKeeps(c)
<1>1. /\ TypeInv /\ CallInv(c) /\ StreamInv(c) /\ stage[c] = "accepted"
      /\ UNCHANGED <<registered, request, written, gone, outcome, helper, queue, reports, cancelled>>
  BY DEF Inv, Handle
<1>2. /\ worker[c] = "none" /\ written[c] = << >> /\ pending[c] = << >> /\ reports[c] = 0
      /\ helper[c] # "running" /\ queue[c] = << >>
  BY <1>1 DEF CallInv, StreamInv
<1>3. PICK r \in Requests : r = request[c]
  BY <1>1 DEF TypeInv
<1>4. PICK o \in IF Raises(r) THEN {"exit"} ELSE OutcomesNow(r) :
        \/ /\ r.method = "tools/call" /\ stage' = [stage EXCEPT ![c] = "handled"]
           /\ head' = [head EXCEPT ![c] = StatusLine(200, "sse")]
           /\ worker' = [worker EXCEPT ![c] = "started"] /\ UNCHANGED pending
        \/ stage' = [stage EXCEPT ![c] = "failed"] /\ UNCHANGED <<head, pending, worker>>
        \/ /\ o # "exit" /\ stage' = [stage EXCEPT ![c] = "handled"]
           /\ head' = [head EXCEPT ![c] = Answer(r, o).head]
           /\ pending' = [pending EXCEPT ![c] = Answer(r, o).body] /\ UNCHANGED worker
  BY <1>3 DEF Handle
<1>5. CASE /\ r.method = "tools/call" /\ stage' = [stage EXCEPT ![c] = "handled"]
           /\ head' = [head EXCEPT ![c] = StatusLine(200, "sse")]
           /\ worker' = [worker EXCEPT ![c] = "started"] /\ UNCHANGED pending
  <2>1. StatusLine(200, "sse") \in HeadLine
    BY DEF StatusLine, HeadLine, Statuses, Frames
  <2>2. TypeInv' /\ \A d \in Connections \ {c} : Same(d)
    BY <1>1, <1>5, <2>1 DEF TypeInv, Same, Stages, Workers
  <2>3. stage'[c] = "handled" /\ worker'[c] = "started"
    BY <1>1, <1>5 DEF TypeInv
  <2>4. CallInv(c)'
    BY <1>1, <1>2, <1>3, <1>5, <2>3 DEF CallInv
  <2>5. PICK none : none = << >>
    OBVIOUS
  <2>6. Open("started", none, none, 0, gone[c], r)
    <3>1. Len(none) = 0 /\ Owed("started") = 0 /\ Silent(none)
      BY <2>5, EmptyIsFine DEF Owed
    <3>2. QED BY <3>1 DEF Open, Ends
  <2>7. StreamInv(c)'
    BY <1>1, <1>2, <1>3, <2>3, <2>5, <2>6, EmptyIsFine DEF StreamInv
  <2>8. QED BY <2>2, <2>4, <2>7 DEF StepKeeps
<1>6. CASE stage' = [stage EXCEPT ![c] = "failed"] /\ UNCHANGED <<head, pending, worker>>
  <2>1. TypeInv' /\ \A d \in Connections \ {c} : Same(d)
    BY <1>1, <1>6 DEF TypeInv, Same, Stages
  <2>2. stage'[c] = "failed"
    BY <1>1, <1>6 DEF TypeInv
  <2>3. CallInv(c)'
    BY <1>1, <1>2, <1>6, <2>2 DEF CallInv
  <2>4. StreamInv(c)'
    BY <1>1, <1>2, <1>6, <2>2, EmptyIsFine DEF StreamInv
  <2>5. QED BY <2>1, <2>3, <2>4 DEF StepKeeps
<1>7. CASE /\ o # "exit" /\ stage' = [stage EXCEPT ![c] = "handled"]
           /\ head' = [head EXCEPT ![c] = Answer(r, o).head]
           /\ pending' = [pending EXCEPT ![c] = Answer(r, o).body] /\ UNCHANGED worker
  <2>1. o \in Values
    BY <1>4, <1>7, OutcomesAreValues
  <2>2. PICK a : a = Answer(r, o)
    OBVIOUS
  <2>3. a.head \in HeadLine /\ Body(a.body, r, a.head.status)
    BY <1>1, <2>1, <2>2, AnswerIsBody DEF TypeInv
  <2>4. a.body \in Seq(Message)
    BY <2>3 DEF Body
  <2>5. head' = [head EXCEPT ![c] = a.head] /\ pending' = [pending EXCEPT ![c] = a.body]
    BY <1>7, <2>2
  <2>6. TypeInv' /\ \A d \in Connections \ {c} : Same(d)
    BY <1>1, <1>7, <2>3, <2>4, <2>5 DEF TypeInv, Same, Stages
  <2>7. stage'[c] = "handled" /\ head'[c] = a.head /\ pending'[c] = a.body /\ worker'[c] = "none"
    BY <1>1, <1>2, <1>7, <2>5 DEF TypeInv
  <2>8. CallInv(c)'
    BY <1>1, <1>2, <2>7 DEF CallInv
  <2>9. StreamInv(c)'
    BY <1>1, <1>2, <1>3, <2>3, <2>7, EmptyIsFine DEF StreamInv
  <2>10. QED BY <2>6, <2>8, <2>9 DEF StepKeeps
<1>8. QED BY <1>4, <1>5, <1>6, <1>7

LEMMA SendHeadStep ==
  ASSUME Inv, NEW c \in Connections, SendHead(c) PROVE StepKeeps(c)
<1>1. /\ TypeInv /\ CallInv(c) /\ StreamInv(c) /\ stage[c] = "handled"
      /\ stage' = [stage EXCEPT ![c] = "writing"]
      /\ UNCHANGED <<registered, request, head, pending, written, gone, worker, outcome, helper,
                     queue, reports, cancelled>>
  BY DEF Inv, SendHead, workerVars
<1>2. TypeInv' /\ \A d \in Connections \ {c} : Same(d)
  BY <1>1 DEF TypeInv, Same, Stages
<1>3. stage'[c] = "writing"
  BY <1>1 DEF TypeInv
<1>4. CallInv(c)'
  BY <1>1, <1>3 DEF CallInv
<1>5. StreamInv(c)'
  BY <1>1, <1>3 DEF StreamInv
<1>6. QED BY <1>2, <1>4, <1>5 DEF StepKeeps

LEMMA WritePendingStep ==
  ASSUME Inv, NEW c \in Connections, WritePending(c) PROVE StepKeeps(c)
<1>1. /\ TypeInv /\ CallInv(c) /\ StreamInv(c) /\ stage[c] = "writing" /\ worker[c] = "none"
      /\ Write(c, pending[c]) /\ pending' = [pending EXCEPT ![c] = << >>]
      /\ stage' = [stage EXCEPT ![c] = "closed"]
      /\ UNCHANGED <<registered, request, head, gone, worker, outcome, helper, queue, reports,
                     cancelled>>
  BY DEF Inv, WritePending, Streams, workerVars
<1>2. PICK M, r, st : M = pending[c] /\ r = request[c] /\ st = head[c].status
  OBVIOUS
<1>3. r \in Requests /\ Body(M, r, st) /\ written[c] = << >> /\ reports[c] = 0
  BY <1>1, <1>2 DEF TypeInv, CallInv, StreamInv
<1>4. M \in Seq(Message)
  BY <1>3 DEF Body
<1>5. /\ written' \in [Connections -> Seq(Message)]
      /\ written'[c] = Gets(written[c], M, gone[c])
      /\ \A d \in Connections \ {c} : written'[d] = written[d]
  BY <1>1, <1>2, <1>4, WriteTypes
<1>6. /\ TypeInv' /\ stage'[c] = "closed" /\ pending'[c] = << >>
      /\ \A d \in Connections \ {c} : Same(d)
  BY <1>1, <1>5, EmptySeq DEF TypeInv, Same, Stages
<1>7. CallInv(c)'
  BY <1>1, <1>6 DEF CallInv
<1>8. PICK V : V = written'[c] /\ V = Gets(written[c], M, gone[c])
  BY <1>5
<1>9. StreamInv(c)'
  <2>1. CASE gone[c]
    <3>1. V = << >>
      BY <1>3, <1>8, <2>1 DEF Gets
    <3>2. QED BY <1>1, <1>6, <1>8, <2>1, <3>1, EmptyIsFine DEF StreamInv
  <2>2. CASE ~gone[c]
    <3>1. V = M
      <4>1. << >> \o M = M
        BY <1>4, ConcatEmptySeq
      <4>2. PICK none : none = written[c] /\ none = << >>
        BY <1>3
      <4>3. V = none \o M
        BY <1>8, <2>2, <4>2 DEF Gets
      <4>4. QED BY <4>1, <4>2, <4>3
    <3>2. /\ Asked(M, r) /\ Told(M, r, st) /\ Len(M) <= MaxReports + 1
          /\ \A i \in DOMAIN M : i = 1 /\ i = Len(M)
      BY <1>3, BodyIsFine
    <3>3. reports'[c] = 0 /\ worker'[c] = "none" /\ 1 = 0 + 1 /\ head'[c].status = st
          /\ request'[c] = r
      BY <1>1, <1>2, <1>3
    <3>4. QED BY <1>6, <1>8, <3>1, <3>2, <3>3 DEF StreamInv
  <2>3. QED BY <2>1, <2>2 DEF TypeInv
<1>10. QED BY <1>6, <1>7, <1>9 DEF StepKeeps

LEMMA GetsAsked ==
  ASSUME NEW W \in Seq(Message), NEW M \in Seq(Message), NEW r, NEW lost,
         Asked(W, r), Asked(M, r)
  PROVE  Asked(Gets(W, M, lost), r)
<1>1. CASE lost
  BY <1>1 DEF Gets
<1>2. CASE ~lost
  <2>1. PICK k \in Nat, m \in Nat : k = Len(W) /\ m = Len(M)
    BY LenProperties
  <2>2. PICK V : V = W \o M
    OBVIOUS
  <2>3. /\ V \in Seq(Message) /\ Len(V) = k + m
        /\ \A i \in 1 .. (k + m) : V[i] = IF i <= k THEN W[i] ELSE M[i - k]
    BY <2>1, <2>2, ConcatProperties
  <2>4. DOMAIN V = 1 .. (k + m) /\ DOMAIN W = 1 .. k /\ DOMAIN M = 1 .. m
    BY <2>1, <2>3, LenProperties
  <2>5. ASSUME NEW i \in 1 .. (k + m) PROVE IsAnswer(V[i]) \/ r.token
    <3>1. CASE i <= k
      <4>1. i \in 1 .. k
        BY <2>1, <2>5, <3>1
      <4>2. QED BY <2>3, <2>4, <2>5, <3>1, <4>1 DEF Asked
    <3>2. CASE ~(i <= k)
      <4>1. i - k \in 1 .. m
        BY <2>1, <2>5, <3>2
      <4>2. V[i] = M[i - k]
        BY <2>3, <2>5, <3>2
      <4>3. QED BY <2>4, <4>1, <4>2 DEF Asked
    <3>3. QED BY <3>1, <3>2
  <2>6. Asked(V, r)
    BY <2>4, <2>5 DEF Asked
  <2>7. QED BY <1>2, <2>2, <2>6 DEF Gets
<1>3. QED BY <1>1, <1>2

LEMMA TakeStep ==
  ASSUME Inv, NEW c \in Connections, Take(c) PROVE StepKeeps(c)
<1>1. /\ TypeInv /\ CallInv(c) /\ StreamInv(c) /\ stage[c] = "writing" /\ worker[c] # "none"
      /\ queue[c] # << >>
      /\ queue' = [queue EXCEPT ![c] = Tail(queue[c])]
      /\ UNCHANGED <<registered, request, head, pending, gone, worker, outcome, helper, reports,
                     cancelled>>
  BY DEF Inv, Take, Streams, TypeInv
<1>2. PICK w \in Workers, Q \in Seq(Event), W \in Seq(Message), n \in 0 .. MaxReports,
           lost \in BOOLEAN, r \in Requests :
        /\ w = worker[c] /\ Q = queue[c] /\ W = written[c] /\ n = reports[c]
        /\ lost = gone[c] /\ r = request[c]
  BY <1>1 DEF TypeInv
<1>3. n \in Nat /\ MaxReports \in Nat /\ n <= MaxReports
  BY RequestsAssumption
<1>4. PICK e \in Event : e = Head(Q)
  BY <1>1, <1>2, HeadTailProperties
<1>5. PICK M \in Seq(Message) : M = e.messages
  BY DEF Event
<1>6. /\ Write(c, M)
      /\ stage' = [stage EXCEPT ![c] = CASE e.kind = "done" -> "closed"
                                         [] e.kind = "exception" -> "failed"
                                         [] OTHER -> "writing"]
  BY <1>2, <1>4, <1>5 DEF Take
<1>7. PICK T \in Seq(Event) : T = Tail(Q)
  BY <1>1, <1>2, HeadTailProperties
<1>8. PICK V \in Seq(Message) : V = Gets(W, M, lost)
  BY <1>2, ConcatProperties DEF Gets
<1>9. /\ written' \in [Connections -> Seq(Message)] /\ written'[c] = V
      /\ \A d \in Connections \ {c} : written'[d] = written[d]
  BY <1>1, <1>2, <1>6, <1>8, WriteTypes
<1>10. /\ queue' \in [Connections -> Seq(Event)] /\ queue'[c] = T
       /\ \A d \in Connections \ {c} : queue'[d] = queue[d]
  BY <1>1, <1>2, <1>7 DEF TypeInv
<1>11. /\ stage' \in [Connections -> Stages]
       /\ stage'[c] = CASE e.kind = "done" -> "closed" [] e.kind = "exception" -> "failed"
                        [] OTHER -> "writing"
       /\ \A d \in Connections \ {c} : stage'[d] = stage[d]
  BY <1>1, <1>6 DEF TypeInv, Stages
<1>12. TypeInv' /\ \A d \in Connections \ {c} : Same(d)
  BY <1>1, <1>9, <1>10, <1>11 DEF TypeInv, Same
<1>13. CallInv(c)'
  BY <1>1, <1>11 DEF CallInv
<1>14. Asked(W, r) /\ Len(W) <= MaxReports + 1 /\ pending'[c] = << >> /\ (n # 0 => r.token)
  BY <1>1, <1>2 DEF StreamInv, CallInv
<1>15. ASSUME stage'[c] = "writing", Asked(V, r), Len(V) <= MaxReports + 1,
              Open(w, T, V, n, lost, r) \/ Settled(w, T, V, n, lost, r)
       PROVE  StreamInv(c)'
  BY <1>1, <1>2, <1>9, <1>10, <1>15 DEF StreamInv
<1>16. CASE Open(w, Q, W, n, lost, r) /\ Len(Q) # Owed(w)
  <2>1. Len(Q) > Owed(w)
    <3>1. PICK l \in Nat, o \in 0 .. 2 : l = Len(Q) /\ o = Owed(w)
      BY LenProperties, OwedIsSmall
    <3>2. l >= o /\ l # o
      BY <1>16, <3>1 DEF Open
    <3>3. QED BY <3>1, <3>2
  <2>2. /\ e = ProgressEvent /\ n # 0
        /\ Open(w, T, Gets(W, <<Progress>>, lost), n, lost, r)
        /\ Len(Gets(W, <<Progress>>, lost)) <= n
    BY <1>3, <1>4, <1>7, <1>16, <2>1, TakeReport
  <2>3. M = <<Progress>> /\ e.kind = "progress"
    BY <1>5, <2>2 DEF ProgressEvent
  <2>4. Open(w, T, V, n, lost, r) /\ Len(V) <= n
    BY <1>8, <2>2, <2>3
  <2>5. Asked(V, r)
    BY <1>14, <2>2 DEF Asked
  <2>6. stage'[c] = "writing"
    BY <1>11, <2>3
  <2>7. Len(V) <= MaxReports + 1
    <3>1. PICK v \in Nat : v = Len(V)
      BY LenProperties
    <3>2. QED BY <1>3, <2>4, <3>1
  <2>8. QED BY <1>12, <1>13, <1>15, <2>4, <2>5, <2>6, <2>7 DEF StepKeeps
<1>17. CASE Open(w, Q, W, n, lost, r) /\ Len(Q) = Owed(w)
  <2>1. /\ w \in Ends /\ IsResult(e, r)
        /\ e.kind = "result" => Settled(w, T, V, n, lost, r)
    <3>1. Q # << >>
      BY <1>1, <1>2
    <3>2. /\ w \in Ends /\ IsResult(Head(Q), r)
          /\ Head(Q).kind = "result" =>
               Settled(w, Tail(Q), Gets(W, Head(Q).messages, lost), n, lost, r)
      BY <1>3, <1>17, <3>1, TakeResult
    <3>3. QED BY <1>4, <1>5, <1>7, <1>8, <3>2
  <2>2. CASE e.kind = "exception"
    <3>1. M = << >>
      BY <1>5, <2>1, <2>2 DEF IsResult
    <3>2. V = W
      <4>1. W \o << >> = W
        BY ConcatEmptySeq
      <4>2. QED BY <1>8, <3>1, <4>1 DEF Gets
    <3>3. Silent(W)
      BY <1>17 DEF Open
    <3>4. stage'[c] = "failed"
      BY <1>11, <2>2
    <3>5. StreamInv(c)'
      BY <1>1, <1>2, <1>9, <1>14, <3>2, <3>3, <3>4 DEF StreamInv, Silent
    <3>6. QED BY <1>12, <1>13, <3>5 DEF StepKeeps
  <2>3. CASE e.kind # "exception"
    <3>1. e.kind = "result" /\ Body(M, r, 0)
      BY <1>5, <2>1, <2>3 DEF IsResult
    <3>2. Asked(M, r)
      BY <3>1, BodyIsFine
    <3>3. Asked(V, r)
      BY <1>8, <1>14, <3>2, GetsAsked
    <3>4. Settled(w, T, V, n, lost, r)
      BY <2>1, <3>1
    <3>5. Len(V) <= MaxReports + 1
      <4>1. PICK v \in Nat : v = Len(V)
        BY LenProperties
      <4>2. v <= n + 1
        BY <3>4, <4>1 DEF Settled
      <4>3. QED BY <1>3, <4>1, <4>2
    <3>6. stage'[c] = "writing"
      BY <1>11, <3>1
    <3>7. QED BY <1>12, <1>13, <1>15, <3>3, <3>4, <3>5, <3>6 DEF StepKeeps
  <2>4. QED BY <2>2, <2>3
<1>18. CASE Settled(w, Q, W, n, lost, r)
  <2>1. w \in Ends /\ Len(Q) = Owed(w) - 1 /\ Len(Q) # 0
    BY <1>1, <1>2, <1>18, EmptySeq DEF Settled
  <2>2. w = "ended"
    BY <2>1 DEF Owed, Ends
  <2>3. Q[1] = DoneEvent /\ Head(Q) = Q[1]
    BY <1>18, <2>2 DEF Settled
  <2>4. M = << >> /\ e.kind = "done"
    BY <1>4, <1>5, <2>3 DEF DoneEvent
  <2>5. V = W
    <3>1. W \o << >> = W
      BY ConcatEmptySeq
    <3>2. QED BY <1>8, <2>4, <3>1 DEF Gets
  <2>6. stage'[c] = "closed"
    BY <1>11, <2>4
  <2>7. Proper(W, n) /\ (lost \/ Told(W, r, 0))
    BY <1>18 DEF Settled
  <2>8. lost \/ Told(W, r, head[c].status)
    BY <2>7 DEF Told
  <2>9. StreamInv(c)'
    BY <1>1, <1>2, <1>9, <1>14, <2>1, <2>5, <2>6, <2>7, <2>8 DEF StreamInv, Proper
  <2>10. QED BY <1>12, <1>13, <2>9 DEF StepKeeps
<1>19. Open(w, Q, W, n, lost, r) \/ Settled(w, Q, W, n, lost, r)
  BY <1>1, <1>2 DEF StreamInv
<1>20. QED BY <1>16, <1>17, <1>18, <1>19

LEMMA WriteFailsStep ==
  ASSUME Inv, NEW c \in Connections, WriteFails(c) PROVE StepKeeps(c)
<1>1. /\ TypeInv /\ CallInv(c) /\ StreamInv(c) /\ stage[c] \in {"handled", "writing"} /\ gone[c]
      /\ stage' = [stage EXCEPT ![c] = "failed"] /\ pending' = [pending EXCEPT ![c] = << >>]
      /\ UNCHANGED <<registered, request, head, written, gone, worker, outcome, helper, reports>>
  BY DEF Inv, WriteFails
<1>2. PICK T : /\ queue' = [queue EXCEPT ![c] = T]
               /\ T = IF stage[c] = "writing" /\ queue[c] # << >> THEN Tail(queue[c]) ELSE queue[c]
  BY <1>1 DEF WriteFails, TypeInv
<1>3. T \in Seq(Event) /\ (queue[c] = << >> => T = << >>)
  BY <1>1, <1>2, HeadTailProperties DEF TypeInv
<1>4. cancelled' \in [Connections -> BOOLEAN]
  BY <1>1 DEF WriteFails, TypeInv, Streams
<1>5. /\ TypeInv' /\ stage'[c] = "failed" /\ pending'[c] = << >> /\ queue'[c] = T
      /\ \A d \in Connections \ {c} : Same(d)
  BY <1>1, <1>2, <1>3, <1>4, EmptySeq DEF TypeInv, Same, Stages
<1>6. CallInv(c)'
  BY <1>1, <1>3, <1>5 DEF CallInv
<1>7. PICK W, n : W = written[c] /\ n = reports[c]
  OBVIOUS
<1>8. Proper(W, n) /\ (Silent(W) \/ worker[c] \in Ends)
  <2>1. CASE stage[c] = "handled" \/ worker[c] = "none"
    <3>1. W = << >>
      BY <1>1, <1>7, <2>1 DEF StreamInv
    <3>2. QED BY <3>1, EmptyIsFine DEF Proper
  <2>2. CASE ~(stage[c] = "handled" \/ worker[c] = "none")
    BY <1>1, <1>7, <2>2 DEF StreamInv, Open, Settled, Proper, Silent
  <2>3. QED BY <2>1, <2>2
<1>9. StreamInv(c)'
  BY <1>1, <1>5, <1>7, <1>8 DEF StreamInv, Proper, Silent
<1>10. QED BY <1>5, <1>6, <1>9 DEF StepKeeps

LEMMA DisconnectStep ==
  ASSUME Inv, NEW c \in Connections, Disconnect(c) PROVE StepKeeps(c)
<1>1. /\ TypeInv /\ CallInv(c) /\ StreamInv(c)
      /\ stage[c] \in {"accepted", "handled", "writing"}
      /\ gone' = [gone EXCEPT ![c] = TRUE]
      /\ UNCHANGED <<registered, stage, request, head, pending, written, worker, outcome, helper,
                     queue, reports, cancelled>>
  BY DEF Inv, Disconnect, workerVars
<1>2. TypeInv' /\ gone'[c] /\ \A d \in Connections \ {c} : Same(d)
  BY <1>1 DEF TypeInv, Same
<1>3. CallInv(c)'
  BY <1>1 DEF CallInv
<1>4. PICK w, Q, W, n, r : w = worker[c] /\ Q = queue[c] /\ W = written[c] /\ n = reports[c]
                           /\ r = request[c]
  OBVIOUS
<1>5. stage[c] \in {"handled", "writing"} /\ w # "none" =>
        Open(w, Q, W, n, TRUE, r) \/ Settled(w, Q, W, n, TRUE, r)
  BY <1>1, <1>4, LoseClient DEF StreamInv
<1>6. gone'[c] = TRUE
  BY <1>1 DEF TypeInv
<1>7. StreamInv(c)'
  BY <1>1, <1>4, <1>5, <1>6 DEF StreamInv
<1>8. QED BY <1>2, <1>3, <1>7 DEF StepKeeps

LEMMA ForgetStep ==
  ASSUME Inv, NEW c \in Connections, Forget(c) PROVE StepKeeps(c)
<1>1. /\ TypeInv
      /\ stage' = [stage EXCEPT ![c] = "idle"] /\ request' = [request EXCEPT ![c] = NoRequest]
      /\ head' = [head EXCEPT ![c] = NoHead] /\ pending' = [pending EXCEPT ![c] = << >>]
      /\ written' = [written EXCEPT ![c] = << >>] /\ gone' = [gone EXCEPT ![c] = FALSE]
      /\ worker' = [worker EXCEPT ![c] = "none"] /\ outcome' = [outcome EXCEPT ![c] = "none"]
      /\ helper' = [helper EXCEPT ![c] = "none"] /\ queue' = [queue EXCEPT ![c] = << >>]
      /\ cancelled' = [cancelled EXCEPT ![c] = FALSE] /\ reports' = [reports EXCEPT ![c] = 0]
      /\ registered' = registered
  BY DEF Inv, Forget
<1>2. NoHead \in HeadLine /\ NoRequest \in Requests /\ 0 \in 0 .. MaxReports
  BY RequestsAssumption DEF NoHead, NoRequest, StatusLine, HeadLine, Statuses, Frames
<1>3. << >> \in Seq(Message) /\ << >> \in Seq(Event)
  BY EmptySeq
<1>4. /\ TypeInv' /\ stage'[c] = "idle" /\ written'[c] = << >> /\ pending'[c] = << >>
      /\ worker'[c] = "none" /\ queue'[c] = << >> /\ helper'[c] = "none" /\ reports'[c] = 0
  BY <1>1, <1>2, <1>3 DEF TypeInv, Stages, Workers
<1>5. \A d \in Connections \ {c} : Same(d)
  BY <1>1 DEF Same, TypeInv
<1>6. CallInv(c)'
  BY <1>4 DEF CallInv
<1>7. StreamInv(c)'
  BY <1>4, EmptyIsFine DEF StreamInv
<1>8. QED BY <1>4, <1>5, <1>6, <1>7 DEF StepKeeps

\* What a step of the worker or of what it has started may do to its call.
WorkerMoves(c) ==
  /\ UNCHANGED toolVars
  /\ worker' \in [Connections -> Workers] /\ outcome' \in [Connections -> Values \cup {"none", "exit"}]
  /\ helper' \in [Connections -> {"none", "running", "ended"}]
  /\ queue' \in [Connections -> Seq(Event)] /\ reports' \in [Connections -> 0 .. MaxReports]
  /\ \A d \in Connections \ {c} :
       /\ worker'[d] = worker[d] /\ outcome'[d] = outcome[d] /\ helper'[d] = helper[d]
       /\ queue'[d] = queue[d] /\ reports'[d] = reports[d]
  /\ worker[c] # "none" /\ worker'[c] # "none"
  /\ helper'[c] = "running" => worker'[c] \in {"running", "returned"}
  /\ worker'[c] = "returned" => outcome'[c] # "none"
  /\ reports'[c] # 0 => request[c].token
  /\ worker[c] \in Ends => worker'[c] \in Ends /\ reports'[c] = reports[c]
  /\ Open(worker[c], queue[c], written[c], reports[c], gone[c], request[c]) =>
       Open(worker'[c], queue'[c], written[c], reports'[c], gone[c], request[c])
  /\ Settled(worker[c], queue[c], written[c], reports[c], gone[c], request[c]) =>
       Settled(worker'[c], queue'[c], written[c], reports'[c], gone[c], request[c])

LEMMA WorkerKeeps ==
  ASSUME Inv, NEW c \in Connections, WorkerMoves(c) PROVE StepKeeps(c)
<1>1. /\ TypeInv /\ CallInv(c) /\ StreamInv(c) /\ worker[c] # "none" /\ worker'[c] # "none"
      /\ UNCHANGED <<registered, stage, request, head, pending, written, gone, cancelled>>
  BY DEF Inv, WorkerMoves, toolVars, httpVars
<1>2. TypeInv' /\ \A d \in Connections \ {c} : Same(d)
  BY <1>1 DEF TypeInv, Same, WorkerMoves
<1>3. CallInv(c)'
  BY <1>1 DEF CallInv, WorkerMoves
<1>4. stage[c] \in {"handled", "writing"} =>
        \/ Open(worker'[c], queue'[c], written[c], reports'[c], gone[c], request[c])
        \/ Settled(worker'[c], queue'[c], written[c], reports'[c], gone[c], request[c])
  BY <1>1 DEF StreamInv, WorkerMoves
<1>5. ASSUME stage[c] \in {"closed", "failed"}, NEW i \in DOMAIN written[c],
             IsAnswer(written[c][i])
      PROVE  /\ i = Len(written[c])
             /\ head[c].frame = "sse" => i = reports'[c] + 1 /\ worker'[c] \in {"none"} \cup Ends
  BY <1>1, <1>5 DEF StreamInv, WorkerMoves
<1>6. StreamInv(c)'
  BY <1>1, <1>4, <1>5 DEF StreamInv
<1>7. QED BY <1>2, <1>3, <1>6 DEF StepKeeps

\* As long as the call has no answer it does not matter what the worker does.
LEMMA StillOpen ==
  ASSUME NEW v \in Workers \ Ends, NEW w \in Workers \ Ends, NEW Q, NEW W, NEW n, NEW lost, NEW r
  PROVE  /\ Open(v, Q, W, n, lost, r) => Open(w, Q, W, n, lost, r)
         /\ ~Settled(v, Q, W, n, lost, r)
BY DEF Open, Settled, Owed, Ends, Workers

LEMMA CallToolStep ==
  ASSUME Inv, NEW c \in Connections, CallTool(c) \/ Return(c) PROVE StepKeeps(c)
<1>1. /\ TypeInv /\ CallInv(c) /\ worker[c] \in {"started", "running"}
      /\ UNCHANGED <<helper, queue, reports, toolVars>>
  BY DEF Inv, CallTool, Return
<1>2. PICK w \in {"running", "returned"}, o \in Values \cup {"none", "exit"} :
        /\ worker' = [worker EXCEPT ![c] = w] /\ outcome' = [outcome EXCEPT ![c] = o]
        /\ w = "returned" => o # "none"
  <2>1. \A r \in Requests : Outcomes(registered, r) \subseteq Values \cup {"exit"}
    BY DEF Outcomes, Values
  <2>2. "none" \notin Values \cup {"exit"}
    BY DEF Values
  <2>3. request[c] \in Requests /\ outcome[c] \in Values \cup {"none", "exit"}
    BY <1>1 DEF TypeInv
  <2>4. CASE CallTool(c) /\ Runs(registered, request[c])
    <3>1. worker' = [worker EXCEPT ![c] = "running"] /\ outcome' = outcome
      BY <2>4 DEF CallTool
    <3>2. outcome' = [outcome EXCEPT ![c] = outcome[c]]
      BY <1>1, <3>1 DEF TypeInv
    <3>3. QED BY <2>3, <3>1, <3>2
  <2>5. CASE CallTool(c) /\ ~Runs(registered, request[c])
    BY <2>1, <2>2, <2>3, <2>5 DEF CallTool
  <2>6. CASE Return(c)
    BY <2>6 DEF Return, Values
  <2>7. QED BY <2>4, <2>5, <2>6
<1>3. /\ worker' \in [Connections -> Workers] /\ worker'[c] = w
      /\ outcome' \in [Connections -> Values \cup {"none", "exit"}] /\ outcome'[c] = o
      /\ \A d \in Connections \ {c} : worker'[d] = worker[d] /\ outcome'[d] = outcome[d]
  BY <1>1, <1>2 DEF TypeInv, Workers
<1>4. PICK v, Q, W, n, lost, r : v = worker[c] /\ Q = queue[c] /\ W = written[c]
                                 /\ n = reports[c] /\ lost = gone[c] /\ r = request[c]
  OBVIOUS
<1>5. v \in Workers \ Ends /\ w \in Workers \ Ends
  BY <1>1, <1>4 DEF Workers, Ends
<1>6. /\ Open(v, Q, W, n, lost, r) => Open(w, Q, W, n, lost, r)
      /\ ~Settled(v, Q, W, n, lost, r)
  BY <1>5, StillOpen
<1>7. UNCHANGED <<helper, queue, reports>> /\ UNCHANGED toolVars
  BY <1>1
<1>8. /\ helper' \in [Connections -> {"none", "running", "ended"}]
      /\ queue' \in [Connections -> Seq(Event)] /\ reports' \in [Connections -> 0 .. MaxReports]
      /\ reports'[c] # 0 => request[c].token
  BY <1>1, <1>7 DEF TypeInv, CallInv
<1>9. WorkerMoves(c)
  BY <1>1, <1>2, <1>3, <1>4, <1>5, <1>6, <1>7, <1>8 DEF WorkerMoves
<1>10. QED BY <1>9, WorkerKeeps

LEMMA HelperStep ==
  ASSUME Inv, NEW c \in Connections, StartHelper(c) \/ HelperEnds(c) PROVE StepKeeps(c)
<1>1. /\ TypeInv /\ CallInv(c) /\ UNCHANGED <<worker, outcome, queue, reports, toolVars>>
  BY DEF Inv, StartHelper, HelperEnds
<1>2. PICK h \in {"running", "ended"} :
        helper' = [helper EXCEPT ![c] = h] /\ (h = "running" => worker[c] = "running")
  BY DEF StartHelper, HelperEnds
<1>3. /\ helper' \in [Connections -> {"none", "running", "ended"}] /\ helper'[c] = h
      /\ \A d \in Connections \ {c} : helper'[d] = helper[d]
  BY <1>1, <1>2 DEF TypeInv
<1>4. worker[c] \in {"running", "returned"}
  BY <1>1 DEF CallInv, StartHelper, HelperEnds
<1>5. UNCHANGED <<worker, outcome, queue, reports>> /\ UNCHANGED toolVars
  BY <1>1
<1>6. WorkerMoves(c)
  BY <1>1, <1>2, <1>3, <1>4, <1>5 DEF WorkerMoves, TypeInv, CallInv
<1>7. QED BY <1>6, WorkerKeeps

LEMMA ReportStep ==
  ASSUME Inv, NEW c \in Connections, Report(c) PROVE StepKeeps(c)
<1>1. /\ TypeInv /\ CallInv(c) /\ request[c].token /\ reports[c] < MaxReports
      /\ Put(c, "progress", <<Progress>>) /\ reports' = [reports EXCEPT ![c] = reports[c] + 1]
      /\ UNCHANGED <<worker, outcome, helper, toolVars>>
  BY DEF Inv, Report, TypeInv
<1>2. worker[c] \in {"running", "returned"}
  BY <1>1 DEF CallInv, Report
<1>3. PICK w \in Workers, Q \in Seq(Event), W \in Seq(Message), n \in 0 .. MaxReports,
           lost \in BOOLEAN, r \in Requests :
        /\ w = worker[c] /\ Q = queue[c] /\ W = written[c] /\ n = reports[c] /\ lost = gone[c]
        /\ r = request[c]
  BY <1>1 DEF TypeInv
<1>4. MaxReports \in Nat /\ n \in Nat /\ n + 1 \in 0 .. MaxReports
  BY <1>1, <1>3, RequestsAssumption
<1>5. w \in Workers \ Ends
  BY <1>2, <1>3 DEF Ends
<1>6. <<Progress>> \in Seq(Message)
  BY EventsAreEvents
<1>7. PICK P : P = Append(Q, ProgressEvent)
  OBVIOUS
<1>8. /\ queue' \in [Connections -> Seq(Event)] /\ queue'[c] = P
      /\ \A d \in Connections \ {c} : queue'[d] = queue[d]
  <2>1. /\ queue' \in [Connections -> Seq(Event)]
        /\ queue'[c] = Append(queue[c], [kind |-> "progress", messages |-> <<Progress>>])
        /\ \A d \in Connections \ {c} : queue'[d] = queue[d]
    BY <1>1, <1>6, PutTypes
  <2>2. QED BY <1>3, <1>7, <2>1 DEF ProgressEvent
<1>9. /\ Open(w, Q, W, n, lost, r) => Open(w, P, W, n + 1, lost, r)
      /\ ~Settled(w, Q, W, n, lost, r)
  BY <1>4, <1>5, <1>7, OpenReports, StillOpen
<1>10. /\ reports' \in [Connections -> 0 .. MaxReports] /\ reports'[c] = n + 1
       /\ \A d \in Connections \ {c} : reports'[d] = reports[d]
  BY <1>1, <1>3, <1>4 DEF TypeInv
<1>11. UNCHANGED <<worker, outcome, helper>> /\ UNCHANGED toolVars
  BY <1>1
<1>12. WorkerMoves(c)
  BY <1>1, <1>2, <1>3, <1>5, <1>8, <1>9, <1>10, <1>11 DEF WorkerMoves, TypeInv, CallInv
<1>13. QED BY <1>12, WorkerKeeps

LEMMA LoopClosesStep ==
  ASSUME Inv, NEW c \in Connections, LoopCloses(c) PROVE StepKeeps(c)
<1>1. /\ TypeInv /\ CallInv(c) /\ StreamInv(c) /\ worker[c] = "returned" /\ helper[c] # "running"
      /\ worker' = [worker EXCEPT ![c] = "answered"]
      /\ UNCHANGED <<outcome, helper, reports, toolVars>>
  BY DEF Inv, LoopCloses
<1>2. PICK Q \in Seq(Event), W \in Seq(Message), n \in 0 .. MaxReports,
           lost \in BOOLEAN, r \in Requests :
        /\ Q = queue[c] /\ W = written[c] /\ n = reports[c] /\ r = request[c] /\ lost = gone[c]
  BY <1>1 DEF TypeInv
<1>3. PICK o \in Values \cup {"exit"} : o = outcome[c]
  BY <1>1 DEF TypeInv, CallInv
<1>4. PICK kind \in {"progress", "result", "exception", "done"}, M \in Seq(Message) :
        Put(c, kind, M) /\ IsResult([kind |-> kind, messages |-> M], r)
  <2>1. CASE o = "exit"
    <3>1. Put(c, "exception", << >>)
      BY <1>3, <2>1 DEF LoopCloses
    <3>2. << >> \in Seq(Message)
      BY EmptySeq
    <3>3. QED BY <3>1, <3>2 DEF IsResult
  <2>2. CASE o # "exit"
    <3>1. PICK M : M = Respond(registered, r, o)
      OBVIOUS
    <3>2. Body(M, r, 0)
      BY <1>1, <1>3, <2>2, <3>1, RespondIsBody DEF TypeInv
    <3>3. Put(c, "result", M)
      BY <1>2, <1>3, <2>2, <3>1 DEF LoopCloses
    <3>4. M \in Seq(Message)
      BY <3>2 DEF Body
    <3>5. QED BY <3>2, <3>3, <3>4 DEF IsResult
  <2>3. QED BY <2>1, <2>2
<1>5. PICK e \in Event : e = [kind |-> kind, messages |-> M]
  BY DEF Event
<1>6. PICK P : P = Append(Q, e)
  OBVIOUS
<1>7. /\ queue' \in [Connections -> Seq(Event)] /\ queue'[c] = P
      /\ \A d \in Connections \ {c} : queue'[d] = queue[d]
  <2>1. /\ queue' \in [Connections -> Seq(Event)]
        /\ queue'[c] = Append(queue[c], [kind |-> kind, messages |-> M])
        /\ \A d \in Connections \ {c} : queue'[d] = queue[d]
    BY <1>1, <1>4, PutTypes
  <2>2. QED BY <1>2, <1>5, <1>6, <2>1
<1>8. "returned" \in Workers \ Ends /\ "answered" \in Workers /\ "answered" \in Ends
  BY DEF Workers, Ends
<1>9. n \in Nat
  BY RequestsAssumption
<1>10. /\ Open("returned", Q, W, n, lost, r) => Open("answered", P, W, n, lost, r)
       /\ ~Settled("returned", Q, W, n, lost, r)
  BY <1>4, <1>5, <1>6, <1>8, <1>9, OpenAnswers, StillOpen
<1>11. /\ worker' \in [Connections -> Workers] /\ worker'[c] = "answered"
       /\ \A d \in Connections \ {c} : worker'[d] = worker[d]
  BY <1>1, <1>8 DEF TypeInv
<1>12. UNCHANGED <<outcome, helper, reports>> /\ UNCHANGED toolVars
  BY <1>1
<1>13. WorkerMoves(c)
  BY <1>1, <1>2, <1>7, <1>8, <1>10, <1>11, <1>12 DEF WorkerMoves, TypeInv, CallInv
<1>14. QED BY <1>13, WorkerKeeps

LEMMA PutDoneStep ==
  ASSUME Inv, NEW c \in Connections, PutDone(c) PROVE StepKeeps(c)
<1>1. /\ TypeInv /\ CallInv(c) /\ worker[c] = "answered" /\ Put(c, "done", << >>)
      /\ worker' = [worker EXCEPT ![c] = "ended"]
      /\ UNCHANGED <<outcome, helper, reports, toolVars>>
  BY DEF Inv, PutDone
<1>2. PICK Q \in Seq(Event), W \in Seq(Message), n \in 0 .. MaxReports,
           lost \in BOOLEAN, r \in Requests :
        /\ Q = queue[c] /\ W = written[c] /\ n = reports[c] /\ lost = gone[c] /\ r = request[c]
  BY <1>1 DEF TypeInv
<1>3. n \in Nat /\ << >> \in Seq(Message)
  BY RequestsAssumption, EmptySeq
<1>4. PICK P : P = Append(Q, DoneEvent)
  OBVIOUS
<1>5. /\ queue' \in [Connections -> Seq(Event)] /\ queue'[c] = P
      /\ \A d \in Connections \ {c} : queue'[d] = queue[d]
  <2>1. /\ queue' \in [Connections -> Seq(Event)]
        /\ queue'[c] = Append(queue[c], [kind |-> "done", messages |-> << >>])
        /\ \A d \in Connections \ {c} : queue'[d] = queue[d]
    BY <1>1, <1>3, PutTypes
  <2>2. QED BY <1>2, <1>4, <2>1 DEF DoneEvent
<1>6. /\ Open("answered", Q, W, n, lost, r) => Open("ended", P, W, n, lost, r)
      /\ Settled("answered", Q, W, n, lost, r) => Settled("ended", P, W, n, lost, r)
  BY <1>3, <1>4, OpenEnds, SettledEnds
<1>7. "ended" \in Workers /\ "ended" \in Ends
  BY DEF Workers, Ends
<1>8. /\ worker' \in [Connections -> Workers] /\ worker'[c] = "ended"
      /\ \A d \in Connections \ {c} : worker'[d] = worker[d]
  BY <1>1, <1>7 DEF TypeInv
<1>9. UNCHANGED <<outcome, helper, reports>> /\ UNCHANGED toolVars
  BY <1>1
<1>10. WorkerMoves(c)
  BY <1>1, <1>2, <1>5, <1>6, <1>7, <1>8, <1>9 DEF WorkerMoves, TypeInv, CallInv
<1>11. QED BY <1>10, WorkerKeeps
-----------------------------------------------------------------------------
LEMMA InvInit == Init => Inv
<1>1. << >> \in Seq(Capabilities) /\ << >> \in Seq(Message) /\ << >> \in Seq(Event)
  BY EmptySeq
<1>2. NoHead \in HeadLine /\ NoRequest \in Requests /\ 0 \in 0 .. MaxReports
  BY RequestsAssumption DEF NoHead, NoRequest, StatusLine, HeadLine, Statuses, Frames
<1>3. Init => TypeInv
  BY <1>1, <1>2 DEF Init, TypeInv, Stages, Workers
<1>4. ASSUME Init, NEW c \in Connections PROVE CallInv(c) /\ StreamInv(c)
  <2>1. /\ stage[c] = "idle" /\ written[c] = << >> /\ pending[c] = << >> /\ worker[c] = "none"
        /\ queue[c] = << >> /\ helper[c] = "none" /\ reports[c] = 0
    BY <1>4 DEF Init
  <2>2. CallInv(c)
    BY <2>1 DEF CallInv
  <2>3. StreamInv(c)
    BY <2>1, EmptyIsFine DEF StreamInv
  <2>4. QED BY <2>2, <2>3
<1>5. QED BY <1>3, <1>4 DEF Inv

LEMMA InvStep == Inv /\ [Next]_vars => Inv'
<1> SUFFICES ASSUME Inv, [Next]_vars PROVE Inv'
  OBVIOUS
<1>1. ASSUME NEW n \in Capabilities, Register(n) PROVE Inv'
  <2>1. UNCHANGED <<stage, request, head, pending, written, gone, worker, outcome, helper, queue,
                    reports, cancelled>>
    BY <1>1 DEF Register, httpVars, workerVars
  <2>2. registered' \in Seq(Capabilities)
    BY <1>1, AppendProperties DEF Register, Inv, TypeInv
  <2>3. TypeInv'
    BY <2>1, <2>2 DEF Inv, TypeInv
  <2>4. ASSUME NEW c \in Connections PROVE CallInv(c)' /\ StreamInv(c)'
    <3>1. Same(c)
      BY <2>1 DEF Same
    <3>2. QED BY <3>1, Stays DEF Inv
  <2>5. QED BY <2>3, <2>4 DEF Inv
<1>2. ASSUME NEW c \in Connections,
             \/ \E r \in Requests : Invoke(c, r) \/ Accept(c, r)
             \/ \E class \in {"ValueError", "other"} : MiddlewareRaises(c, class)
             \/ Thread(c) \/ WriteFails(c) \/ Disconnect(c) \/ Forget(c)
             \/ Worker(c) \/ Report(c) \/ StartHelper(c) \/ HelperEnds(c)
      PROVE  Inv'
  <2>1. StepKeeps(c)
    BY <1>2, InvokeStep, AcceptStep, RaisesStep, HandleStep, SendHeadStep, WritePendingStep,
       TakeStep, WriteFailsStep, DisconnectStep, ForgetStep, CallToolStep, HelperStep, ReportStep,
       LoopClosesStep, PutDoneStep
       DEF Thread, Worker
  <2>2. QED BY <2>1, InvKept
<1>3. ASSUME UNCHANGED vars PROVE Inv'
  <2>1. UNCHANGED <<registered, stage, request, head, pending, written, gone, worker, outcome,
                    helper, queue, reports, cancelled>>
    BY <1>3 DEF vars, httpVars, workerVars
  <2>2. TypeInv'
    BY <2>1 DEF Inv, TypeInv
  <2>3. ASSUME NEW c \in Connections PROVE CallInv(c)' /\ StreamInv(c)'
    <3>1. Same(c)
      BY <2>1 DEF Same
    <3>2. QED BY <3>1, Stays DEF Inv
  <2>4. QED BY <2>2, <2>3 DEF Inv
<1>4. QED BY <1>1, <1>2, <1>3 DEF Next

LEMMA InvHolds == Spec => []Inv
BY InvInit, InvStep, PTL DEF Spec

\* The variables hold what their comments say, whatever the tools and the clients do; a response
\* that needs no worker has at most one message, and the bound on reports is kept.
THEOREM TypeCorrect == Spec => []TypeOK
<1>1. ASSUME Inv PROVE TypeOK
  <2>1. ASSUME NEW c \in Connections PROVE Len(pending[c]) <= 1
    <3>1. CASE pending[c] = << >>
      BY <3>1, EmptySeq
    <3>2. CASE pending[c] # << >>
      <4>1. Body(pending[c], request[c], head[c].status)
        BY <1>1, <3>2 DEF Inv, CallInv, StreamInv
      <4>2. PICK m \in Message : pending[c] = <<m>>
        BY <3>2, <4>1 DEF Body
      <4>3. QED BY <4>2
    <3>3. QED BY <3>1, <3>2
  <2>2. ASSUME NEW c \in Connections
        PROVE  \A i \in DOMAIN queue[c] :
                 queue[c][i].kind \in {"progress", "result", "exception", "done"}
    <3>1. PICK Q \in Seq(Event) : Q = queue[c]
      BY <1>1 DEF Inv, TypeInv
    <3>2. \A i \in DOMAIN Q : Q[i] \in Event
      BY ElementOfSeq, LenProperties
    <3>3. QED BY <3>1, <3>2 DEF Event
  <2>3. ASSUME NEW c \in Connections
        PROVE  head[c].status \in Statuses /\ head[c].frame \in Frames
    <3>1. head[c] \in HeadLine
      BY <1>1 DEF Inv, TypeInv
    <3>2. QED BY <3>1 DEF HeadLine
  <2>4. ASSUME NEW c \in Connections PROVE outcome[c] \in Values \cup {"none", "exit"}
    BY <1>1 DEF Inv, TypeInv
  <2>5. ASSUME NEW c \in Connections
        PROVE  /\ stage[c] \in Stages /\ request[c] \in Requests
               /\ Len(written[c]) <= MaxReports + 1
               /\ gone[c] \in BOOLEAN /\ cancelled[c] \in BOOLEAN /\ worker[c] \in Workers
               /\ helper[c] \in {"none", "running", "ended"} /\ reports[c] \in 0 .. MaxReports
    BY <1>1 DEF Inv, TypeInv, StreamInv
  <2>6. registered \in Seq(Capabilities)
    BY <1>1 DEF Inv, TypeInv
  <2>7. QED BY <2>1, <2>2, <2>3, <2>4, <2>5, <2>6
            DEF TypeOK, Stages, Statuses, Frames, Workers, Values
<1>2. QED BY <1>1, InvHolds, PTL

\* A client that stays gets the reports it has asked for, each of them and before the answer, then
\* one answer, and nothing after it; a notification has no answer, unless a check refuses it.
THEOREM StreamsEndWithAnswer == Spec => []AnswerEndsTheStream
<1>1. ASSUME Inv, NEW c \in Connections
      PROVE  /\ \A i \in DOMAIN written[c] :
                  IF IsAnswer(written[c][i])
                  THEN i = Len(written[c]) /\ (head[c].frame = "sse" => i = reports[c] + 1)
                  ELSE request[c].token
             /\ stage[c] = "closed" /\ ~gone[c] =>
                  IF request[c].id THEN \E i \in DOMAIN written[c] : IsAnswer(written[c][i])
                  ELSE \A i \in DOMAIN written[c] :
                         \/ ~IsAnswer(written[c][i])
                         \/ written[c][i].code \in CheckCodes
                         \/ head[c].status = 400
  <2>1. PICK W, r, n : W = written[c] /\ r = request[c] /\ n = reports[c]
    OBVIOUS
  <2>2. TypeInv /\ CallInv(c) /\ StreamInv(c)
    BY <1>1 DEF Inv
  <2>3. Asked(W, r)
    BY <2>1, <2>2 DEF StreamInv
  <2>4. ASSUME NEW i \in DOMAIN W, IsAnswer(W[i])
        PROVE  i = Len(W) /\ (head[c].frame = "sse" => i = n + 1)
    <3>1. CASE stage[c] \in {"closed", "failed"}
      BY <2>1, <2>2, <2>4, <3>1 DEF StreamInv
    <3>2. CASE stage[c] \notin {"closed", "failed"}
      <4>1. W # << >>
        BY <2>4, EmptyIsFine
      <4>2. stage[c] = "writing" /\ worker[c] # "none"
        BY <2>1, <2>2, <3>2, <4>1 DEF TypeInv, StreamInv, Stages
      <4>3. ~Silent(W)
        BY <2>4 DEF Silent
      <4>4. Proper(W, n)
        BY <2>1, <2>2, <4>2, <4>3 DEF StreamInv, Open, Settled
      <4>5. QED BY <2>4, <4>4 DEF Proper
    <3>3. QED BY <3>1, <3>2
  <2>5. stage[c] = "closed" /\ ~gone[c] => Told(W, r, head[c].status)
    BY <2>1, <2>2 DEF StreamInv
  <2>6. QED BY <2>1, <2>3, <2>4, <2>5 DEF Asked, Told
<1>2. Inv => AnswerEndsTheStream
  BY <1>1 DEF AnswerEndsTheStream
<1>3. QED BY <1>2, InvHolds, PTL

\* A connection's thread blocks on an empty queue only while the worker has something to put: the
\* result or the exception, and the mark of the end, whatever the tool did and whoever has left.
ReadersAreFed ==
  \A c \in Connections :
    stage[c] = "writing" /\ Streams(c) /\ queue[c] = << >> => worker[c] # "ended"

THEOREM NoReaderStarves == Spec => []ReadersAreFed
<1>1. ASSUME Inv, NEW c \in Connections, stage[c] = "writing", Streams(c), worker[c] = "ended"
      PROVE  queue[c] # << >>
  <2>1. PICK Q, W, n, lost, r :
          /\ Q = queue[c] /\ W = written[c] /\ n = reports[c] /\ lost = gone[c] /\ r = request[c]
    OBVIOUS
  <2>2. Open("ended", Q, W, n, lost, r) \/ Settled("ended", Q, W, n, lost, r)
    BY <1>1, <2>1 DEF Inv, StreamInv, Streams
  <2>3. Q \in Seq(Event)
    BY <1>1, <2>1 DEF Inv, TypeInv
  <2>4. Len(Q) # 0
    BY <2>2, <2>3, LenProperties DEF Open, Settled, Owed
  <2>5. QED BY <2>1, <2>4, EmptySeq
<1>2. Inv => ReadersAreFed
  BY <1>1 DEF ReadersAreFed
<1>3. QED BY <1>2, InvHolds, PTL
===============================================================================
