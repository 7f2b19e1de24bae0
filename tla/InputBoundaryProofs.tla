-------------------------- MODULE InputBoundaryProofs --------------------------
(* For any number of keys, flushes and nested layers, and a game that answers  *)
(* before a quiet period ends: guarded exchanges end when the game waits, with *)
(* nothing of its output unread, and their evidence is the game's own.  The    *)
(* argument replays what is on the socket: reading it all leads the client to  *)
(* what the game is, and on the way no flush but the last one of a game that   *)
(* rests can look like a boundary.                                             *)
EXTENDS InputBoundary, TLAPS

Clients == Exchanging \union {"deciding", "failed", "ended"}
Boundaries == Guarded \union {"input-ready-or-quiescence", "quiescence"}
Inputs == {"probe"} \union DOMAIN Boundary
Messages ==
  [msg : {"input_mode"}, mode : Modes] \union [msg : {"ui-push"}, blocking : BOOLEAN]
    \union [msg : {"ui-stack"}, items : Seq(BOOLEAN)]
    \union [msg : {"flush", "delta", "ui-pop", "close_all_menus", "init_input", "close_input",
                   "exit"}]
Packets == [m : Messages, of : Nat]
Evidences == [input_mode : Modes \union {NoMode}, ui_stack : Seq(BOOLEAN), line_input : BOOLEAN,
              saw_busy : BOOLEAN, of : Nat]
Readers == [mode : Modes \union {NoMode}, e : Evidences]

\* What reading a packet does to the remembered mode and the evidence.
Reading(b, r, p) ==
  [mode |-> IF p.m.msg = "input_mode" THEN p.m.mode ELSE r.mode,
   e |-> IF b \in Guarded THEN Apply(r.e, p.m, p.of) ELSE r.e]

\* A reader to whom a flush says that the game is still running.
Busy(b, r) ==
  /\ r.mode = 0
  /\ b \in Guarded =>
       /\ r.e.input_mode = 0 /\ r.e.saw_busy /\ ~ r.e.line_input
       /\ r.e.ui_stack \in {<<>>, <<FALSE>>}

\* A reader in an exchange with boundary b that holds h and reads ch ends as r; but for
\* a quiescence boundary each flush on the way finds it busy, unless the game rests and
\* nothing follows; a guarded exchange is only told what the game said after n keys.
Leads(b, h, n, ch, r, rests) ==
  /\ ch \in Seq(Packets)
  /\ b \in Guarded => \A i \in 1..Len(ch) : ch[i].of = n
  /\ \E f \in [0..Len(ch) -> Readers] :
       /\ f[0] = h /\ f[Len(ch)] = r
       /\ \A i \in 1..Len(ch) : f[i] = Reading(b, f[i - 1], ch[i])
       /\ b # "quiescence" =>
            \A i \in 1..Len(ch) :
              ch[i].m.msg = "flush" => Busy(b, f[i]) \/ (rests /\ i = Len(ch))

\* Of the inputs in box, those that are keys bring the count from t to n.
Counted(t, box, n) ==
  \E c \in [0..Len(box) -> Nat] :
    /\ c[0] = t /\ c[Len(box)] = n
    /\ \A i \in 1..Len(box) : c[i] = c[i - 1] + (IF box[i] = "probe" THEN 0 ELSE 1)
-------------------------------------------------------------------------------
(* Reading.                                                                   *)

LEMMA MessageKinds ==
  /\ \A m \in Modes : Mode(m) \in Messages
  /\ \A x \in BOOLEAN : Push(x) \in Messages
  /\ \A s \in Seq(BOOLEAN) : UiStack(s) \in Messages
  /\ Flush \in Messages /\ Plain("delta") \in Messages /\ Plain("ui-pop") \in Messages
  /\ Plain("close_all_menus") \in Messages /\ Plain("init_input") \in Messages
  /\ Plain("close_input") \in Messages /\ Plain("exit") \in Messages
<1> QED BY DEF Mode, Push, UiStack, Flush, Plain, Messages

LEMMA ApplyTyped ==
  ASSUME NEW e \in Evidences, NEW p \in Messages, NEW k \in Nat
  PROVE  Apply(e, p, k) \in Evidences
<1>1. CASE p \in [msg : {"input_mode"}, mode : Modes]
  BY <1>1 DEF Apply, Evidences
<1>2. CASE p \in [msg : {"ui-push"}, blocking : BOOLEAN]
  <2>1. Append(e.ui_stack, p.blocking) \in Seq(BOOLEAN)
    BY <1>2 DEF Evidences
  <2>2. p.msg = "ui-push"
    BY <1>2
  <2> QED BY <2>1, <2>2 DEF Apply, Evidences
<1>3. CASE p \in [msg : {"ui-stack"}, items : Seq(BOOLEAN)]
  BY <1>3 DEF Apply, Evidences
<1>4. CASE p \in [msg : {"flush", "delta", "ui-pop", "close_all_menus", "init_input",
                         "close_input", "exit"}]
  <2>1. e.ui_stack # <<>> => Front(e.ui_stack) \in Seq(BOOLEAN)
    BY DEF Evidences, Front
  <2>2. <<>> \in Seq(BOOLEAN)
    OBVIOUS
  <2> QED BY <1>4, <2>1, <2>2 DEF Apply, Evidences
<1> QED BY <1>1, <1>2, <1>3, <1>4 DEF Messages

LEMMA ReadingTyped ==
  ASSUME NEW b, NEW r \in Readers, NEW p \in Packets
  PROVE  Reading(b, r, p) \in Readers
<1>1. p.m \in Messages /\ p.of \in Nat /\ r.e \in Evidences /\ r.mode \in Modes \union {NoMode}
  BY DEF Packets, Readers
<1>2. Apply(r.e, p.m, p.of) \in Evidences
  BY <1>1, ApplyTyped
<1>3. p.m.msg = "input_mode" => p.m.mode \in Modes
  BY <1>1 DEF Messages
<1> QED BY <1>1, <1>2, <1>3 DEF Reading, Readers

\* Nothing to read.
LEMMA LeadsEmpty ==
  ASSUME NEW b, NEW h \in Readers, NEW n, NEW rests
  PROVE  /\ Leads(b, h, n, <<>>, h, rests)
         /\ \A r : Leads(b, h, n, <<>>, r, rests) => r = h
<1>1. [i \in 0..0 |-> h] \in [0..Len(<<>>) -> Readers]
  OBVIOUS
<1>2. 1..Len(<<>>) = {} /\ Len(<<>>) = 0 /\ <<>> \in Seq(Packets)
  OBVIOUS
<1> DEFINE g == [i \in 0..0 |-> h]
<1>3. g \in [0..Len(<<>>) -> Readers] /\ g[0] = h /\ g[Len(<<>>)] = h
  BY <1>1, <1>2
<1> HIDE DEF g
<1>4. Leads(b, h, n, <<>>, h, rests)
  BY <1>2, <1>3 DEF Leads
<1>5. ASSUME NEW r, Leads(b, h, n, <<>>, r, rests) PROVE r = h
  BY <1>2, <1>5 DEF Leads
<1> QED BY <1>4, <1>5

\* Whether the game rests matters only to the last flush.
LEMMA LeadsWeaken ==
  ASSUME NEW b, NEW h, NEW n, NEW ch, NEW r, NEW rests, NEW other,
         Leads(b, h, n, ch, r, rests), rests => other \/ ch = <<>> \/ b = "quiescence"
  PROVE  Leads(b, h, n, ch, r, other)
<1> PICK f \in [0..Len(ch) -> Readers] :
       /\ f[0] = h /\ f[Len(ch)] = r
       /\ \A i \in 1..Len(ch) : f[i] = Reading(b, f[i - 1], ch[i])
       /\ b # "quiescence" =>
            \A i \in 1..Len(ch) :
              ch[i].m.msg = "flush" => Busy(b, f[i]) \/ (rests /\ i = Len(ch))
  BY DEF Leads
<1>1. ch = <<>> => 1..Len(ch) = {}
  OBVIOUS
<1>2. b # "quiescence" =>
            \A i \in 1..Len(ch) :
              ch[i].m.msg = "flush" => Busy(b, f[i]) \/ (other /\ i = Len(ch))
  BY <1>1
<1> QED BY <1>2 DEF Leads

\* The client reads the first packet.
LEMMA LeadsTail ==
  ASSUME NEW b, NEW h, NEW n, NEW ch, NEW r, NEW rests,
         Leads(b, h, n, ch, r, rests), ch # <<>>
  PROVE  /\ Head(ch) \in Packets
         /\ Leads(b, Reading(b, h, Head(ch)), n, Tail(ch), r, rests)
         /\ b \in Guarded => Head(ch).of = n
         /\ b # "quiescence" /\ Head(ch).m.msg = "flush" =>
              Busy(b, Reading(b, h, Head(ch))) \/ (rests /\ Tail(ch) = <<>>)
<1> PICK f \in [0..Len(ch) -> Readers] :
       /\ f[0] = h /\ f[Len(ch)] = r
       /\ \A i \in 1..Len(ch) : f[i] = Reading(b, f[i - 1], ch[i])
       /\ b # "quiescence" =>
            \A i \in 1..Len(ch) :
              ch[i].m.msg = "flush" => Busy(b, f[i]) \/ (rests /\ i = Len(ch))
  BY DEF Leads
<1>1. ch \in Seq(Packets) /\ (b \in Guarded => \A i \in 1..Len(ch) : ch[i].of = n)
  BY DEF Leads
<1> DEFINE t == Tail(ch)
           g == [i \in 0..Len(t) |-> f[i + 1]]
<1>2. /\ t \in Seq(Packets) /\ Len(t) = Len(ch) - 1 /\ Len(ch) \in Nat /\ Len(ch) > 0
      /\ \A i \in 1..Len(t) : t[i] = ch[i + 1]
      /\ Head(ch) = ch[1] /\ Head(ch) \in Packets
  BY <1>1
<1> HIDE DEF t
<1>3. g \in [0..Len(t) -> Readers]
  BY <1>2
<1>4. f[1] = Reading(b, h, Head(ch))
  BY <1>2
<1>5. g[0] = Reading(b, h, Head(ch)) /\ g[Len(t)] = r
  BY <1>2, <1>4
<1>6. \A i \in 1..Len(t) : g[i] = Reading(b, g[i - 1], t[i])
  <2> SUFFICES ASSUME NEW i \in 1..Len(t) PROVE g[i] = Reading(b, g[i - 1], t[i])
    OBVIOUS
  <2>1. /\ i + 1 \in 1..Len(ch) /\ i \in 0..Len(t) /\ i - 1 \in 0..Len(t)
        /\ (i - 1) + 1 = i /\ (i + 1) - 1 = i /\ t[i] = ch[i + 1]
    BY <1>2
  <2>2. f[i + 1] = Reading(b, f[(i + 1) - 1], ch[i + 1])
    BY <2>1
  <2>3. g[i] = f[i + 1] /\ g[i - 1] = f[i]
    BY <2>1
  <2> QED BY <2>1, <2>2, <2>3
<1>7. ASSUME b # "quiescence", NEW i \in 1..Len(t), t[i].m.msg = "flush"
      PROVE  Busy(b, g[i]) \/ (rests /\ i = Len(t))
  <2>1. i + 1 \in 1..Len(ch) /\ g[i] = f[i + 1] /\ t[i] = ch[i + 1]
    BY <1>2
  <2>2. Busy(b, f[i + 1]) \/ (rests /\ i + 1 = Len(ch))
    BY <1>7, <2>1
  <2> QED BY <1>2, <2>1, <2>2
<1>8. b \in Guarded => \A i \in 1..Len(t) : t[i].of = n
  BY <1>1, <1>2
<1>9. ASSUME b # "quiescence", Head(ch).m.msg = "flush"
      PROVE  Busy(b, f[1]) \/ (rests /\ t = <<>>)
  <2>1. 1 \in 1..Len(ch) /\ (1 = Len(ch) => t = <<>>)
    BY <1>2
  <2> QED BY <1>2, <1>9, <2>1
<1>10. Leads(b, Reading(b, h, Head(ch)), n, t, r, rests)
  <2> HIDE DEF g
  <2> QED BY <1>2, <1>3, <1>5, <1>6, <1>7, <1>8 DEF Leads
<1>11. b \in Guarded => Head(ch).of = n
  BY <1>1, <1>2
<1>12. ASSUME b # "quiescence", Head(ch).m.msg = "flush"
       PROVE  Busy(b, Reading(b, h, Head(ch))) \/ (rests /\ t = <<>>)
  BY <1>4, <1>9, <1>12
<1> HIDE DEF g
<1>13. Head(ch) \in Packets
  BY <1>2
<1> QED BY <1>10, <1>11, <1>12, <1>13 DEF t

\* The game adds a packet: when it is a flush it must find the reader busy, or the game
\* rests.
LEMMA LeadsAppend ==
  ASSUME NEW b, NEW h, NEW n, NEW ch, NEW r, NEW rests, NEW p \in Packets,
         Leads(b, h, n, ch, r, FALSE), b \in Guarded => p.of = n,
         p.m.msg = "flush" => b = "quiescence" \/ Busy(b, Reading(b, r, p)) \/ rests
  PROVE  Leads(b, h, n, Append(ch, p), Reading(b, r, p), rests)
<1> PICK f \in [0..Len(ch) -> Readers] :
       /\ f[0] = h /\ f[Len(ch)] = r
       /\ \A i \in 1..Len(ch) : f[i] = Reading(b, f[i - 1], ch[i])
       /\ b # "quiescence" =>
            \A i \in 1..Len(ch) : ch[i].m.msg = "flush" => Busy(b, f[i])
  BY DEF Leads
<1>1. ch \in Seq(Packets) /\ (b \in Guarded => \A i \in 1..Len(ch) : ch[i].of = n)
  BY DEF Leads
<1> DEFINE l == Len(ch) + 1
           a == Append(ch, p)
           s == Reading(b, r, p)
           g == [i \in 0..l |-> IF i = l THEN s ELSE f[i]]
<1>2. /\ a \in Seq(Packets) /\ Len(a) = l /\ Len(ch) \in Nat
      /\ a[l] = p /\ \A i \in 1..Len(ch) : a[i] = ch[i]
  BY <1>1
<1>3. s \in Readers
  <2>1. Len(ch) \in 0..Len(ch)
    BY <1>2
  <2> QED BY <2>1, ReadingTyped
<1>4. g \in [0..Len(a) -> Readers]
  <2>1. \A i \in 0..l : i # l => i \in 0..Len(ch)
    BY <1>2
  <2> QED BY <1>2, <1>3, <2>1
<1>5. g[0] = h /\ g[Len(a)] = s
  BY <1>2
<1>6. \A i \in 1..Len(a) : g[i] = Reading(b, g[i - 1], a[i])
  <2> SUFFICES ASSUME NEW i \in 1..l PROVE g[i] = Reading(b, g[i - 1], a[i])
    BY <1>2
  <2>1. CASE i = l
    <3>1. g[i] = s /\ g[i - 1] = f[Len(ch)] /\ a[i] = p
      BY <1>2, <2>1
    <3> QED BY <3>1
  <2>2. CASE i # l
    <3>1. i \in 1..Len(ch) /\ g[i] = f[i] /\ g[i - 1] = f[i - 1] /\ a[i] = ch[i]
      BY <1>2, <2>2
    <3> QED BY <3>1
  <2> QED BY <2>1, <2>2
<1>7. ASSUME b # "quiescence", NEW i \in 1..Len(a), a[i].m.msg = "flush"
      PROVE  Busy(b, g[i]) \/ (rests /\ i = Len(a))
  <2>1. CASE i = l
    <3>1. g[i] = s /\ a[i] = p
      BY <1>2, <2>1
    <3> QED BY <1>2, <1>7, <2>1, <3>1
  <2>2. CASE i # l
    <3>1. i \in 1..Len(ch) /\ g[i] = f[i] /\ a[i] = ch[i]
      BY <1>2, <2>2
    <3> QED BY <1>7, <3>1
  <2> QED BY <2>1, <2>2
<1>8. b \in Guarded => \A i \in 1..Len(a) : a[i].of = n
  BY <1>1, <1>2
<1> HIDE DEF a, g, s, l
<1>9. Leads(b, h, n, a, s, rests)
  BY <1>2, <1>4, <1>5, <1>6, <1>7, <1>8 DEF Leads
<1> QED BY <1>9 DEF a, s

\* The count of keys, likewise.
LEMMA CountedEmpty == \A t, n : Counted(t, <<>>, n) => t = n
<1>1. Len(<<>>) = 0
  OBVIOUS
<1> QED BY <1>1 DEF Counted

LEMMA CountedTail ==
  ASSUME NEW t \in Nat, NEW n, NEW box \in Seq(Inputs), Counted(t, box, n), box # <<>>
  PROVE  Counted(t + (IF Head(box) = "probe" THEN 0 ELSE 1), Tail(box), n)
<1> PICK c \in [0..Len(box) -> Nat] :
       /\ c[0] = t /\ c[Len(box)] = n
       /\ \A i \in 1..Len(box) : c[i] = c[i - 1] + (IF box[i] = "probe" THEN 0 ELSE 1)
  BY DEF Counted
<1> DEFINE rest == Tail(box)
           d == [i \in 0..Len(rest) |-> c[i + 1]]
<1>1. /\ rest \in Seq(Inputs) /\ Len(rest) = Len(box) - 1 /\ Len(box) \in Nat /\ Len(box) > 0
      /\ \A i \in 1..Len(rest) : rest[i] = box[i + 1]
      /\ Head(box) = box[1]
  OBVIOUS
<1> HIDE DEF rest
<1>2. d \in [0..Len(rest) -> Nat]
  BY <1>1
<1>3. c[1] = t + (IF Head(box) = "probe" THEN 0 ELSE 1)
  BY <1>1
<1>4. d[0] = c[1] /\ d[Len(rest)] = n
  BY <1>1
<1>5. \A i \in 1..Len(rest) : d[i] = d[i - 1] + (IF rest[i] = "probe" THEN 0 ELSE 1)
  <2> SUFFICES ASSUME NEW i \in 1..Len(rest)
               PROVE  d[i] = d[i - 1] + (IF rest[i] = "probe" THEN 0 ELSE 1)
    OBVIOUS
  <2>1. /\ i + 1 \in 1..Len(box) /\ i \in 0..Len(rest) /\ i - 1 \in 0..Len(rest)
        /\ (i - 1) + 1 = i /\ (i + 1) - 1 = i /\ rest[i] = box[i + 1]
    BY <1>1
  <2>2. c[i + 1] = c[(i + 1) - 1] + (IF box[i + 1] = "probe" THEN 0 ELSE 1)
    BY <2>1
  <2>3. d[i] = c[i + 1] /\ d[i - 1] = c[i]
    BY <2>1
  <2> QED BY <2>1, <2>2, <2>3
<1> HIDE DEF d
<1>6. Counted(c[1], rest, n)
  BY <1>2, <1>4, <1>5 DEF Counted
<1> QED BY <1>3, <1>6 DEF rest

LEMMA CountedAppend ==
  ASSUME NEW t, NEW n \in Nat, NEW box \in Seq(Inputs), Counted(t, box, n), NEW k \in Inputs
  PROVE  Counted(t, Append(box, k), n + (IF k = "probe" THEN 0 ELSE 1))
<1> PICK c \in [0..Len(box) -> Nat] :
       /\ c[0] = t /\ c[Len(box)] = n
       /\ \A i \in 1..Len(box) : c[i] = c[i - 1] + (IF box[i] = "probe" THEN 0 ELSE 1)
  BY DEF Counted
<1> DEFINE l == Len(box) + 1
           a == Append(box, k)
           s == n + (IF k = "probe" THEN 0 ELSE 1)
           d == [i \in 0..l |-> IF i = l THEN s ELSE c[i]]
<1>1. Len(a) = l /\ Len(box) \in Nat /\ a[l] = k /\ \A i \in 1..Len(box) : a[i] = box[i]
  OBVIOUS
<1>2. s \in Nat
  OBVIOUS
<1>3. d \in [0..Len(a) -> Nat] /\ d[0] = t /\ d[Len(a)] = s
  <2>1. \A i \in 0..l : i # l => i \in 0..Len(box)
    BY <1>1
  <2> QED BY <1>1, <1>2, <2>1
<1>4. \A i \in 1..Len(a) : d[i] = d[i - 1] + (IF a[i] = "probe" THEN 0 ELSE 1)
  <2> SUFFICES ASSUME NEW i \in 1..l PROVE d[i] = d[i - 1] + (IF a[i] = "probe" THEN 0 ELSE 1)
    BY <1>1
  <2>1. CASE i = l
    <3>1. d[i] = s /\ d[i - 1] = c[Len(box)] /\ a[i] = k
      BY <1>1, <2>1
    <3> QED BY <3>1
  <2>2. CASE i # l
    <3>1. i \in 1..Len(box) /\ d[i] = c[i] /\ d[i - 1] = c[i - 1] /\ a[i] = box[i]
      BY <1>1, <2>2
    <3> QED BY <3>1
  <2> QED BY <2>1, <2>2
<1> HIDE DEF d, a, s, l
<1>5. Counted(t, a, s)
  BY <1>3, <1>4 DEF Counted
<1> QED BY <1>5 DEF a, s
-------------------------------------------------------------------------------
(* What single messages say.                                                  *)

Packet(message, k) == [m |-> message, of |-> k]

LEMMA ReadsMode ==
  ASSUME NEW b, NEW r \in Readers, NEW p \in Packets, p.m.msg = "input_mode"
  PROVE  LET s == Reading(b, r, p) IN
         /\ s.mode = p.m.mode
         /\ b \in Guarded => /\ s.e.input_mode = p.m.mode /\ s.e.ui_stack = r.e.ui_stack
                             /\ s.e.line_input = r.e.line_input
                             /\ p.m.mode = 0 => s.e.saw_busy
<1>1. r.e \in Evidences
  BY DEF Readers
<1> QED BY <1>1 DEF Reading, Apply, Evidences

LEMMA ReadsPush ==
  ASSUME NEW b, NEW r \in Readers, NEW x \in BOOLEAN, NEW k \in Nat
  PROVE  LET s == Reading(b, r, Packet(Push(x), k)) IN
         /\ s.mode = r.mode
         /\ b \in Guarded => /\ s.e.ui_stack = Append(r.e.ui_stack, x)
                             /\ s.e.input_mode = r.e.input_mode
                             /\ s.e.line_input = r.e.line_input /\ s.e.saw_busy = r.e.saw_busy
<1>1. r.e \in Evidences
  BY DEF Readers
<1> QED BY <1>1 DEF Reading, Packet, Push, Apply, Evidences

LEMMA ReadsPop ==
  ASSUME NEW b, NEW r \in Readers, NEW k \in Nat
  PROVE  LET s == Reading(b, r, Packet(Plain("ui-pop"), k)) IN
         /\ s.mode = r.mode
         /\ b \in Guarded =>
              /\ s.e.ui_stack = IF r.e.ui_stack = <<>> THEN <<>> ELSE Front(r.e.ui_stack)
              /\ s.e.input_mode = r.e.input_mode
              /\ s.e.line_input = r.e.line_input /\ s.e.saw_busy = r.e.saw_busy
<1>1. r.e \in Evidences
  BY DEF Readers
<1> QED BY <1>1 DEF Reading, Packet, Plain, Apply, Evidences

LEMMA ReadsStack ==
  ASSUME NEW b, NEW r \in Readers, NEW t \in Seq(BOOLEAN), NEW k \in Nat
  PROVE  LET s == Reading(b, r, Packet(UiStack(t), k)) IN
         s.mode = r.mode /\ (b \in Guarded => s.e.ui_stack = t)
<1>1. r.e \in Evidences
  BY DEF Readers
<1> QED BY <1>1 DEF Reading, Packet, UiStack, Apply, Evidences

\* Those that leave the mode and the layers as they are.
LEMMA ReadsPlain ==
  ASSUME NEW b, NEW r \in Readers, NEW k \in Nat
  PROVE  /\ \A kind \in {"flush", "delta", "exit"} : Reading(b, r, Packet(Plain(kind), k)) = r
         /\ \A kind \in {"close_all_menus", "init_input", "close_input"} :
              LET s == Reading(b, r, Packet(Plain(kind), k)) IN
              /\ s.mode = r.mode
              /\ b \in Guarded /\ kind # "close_all_menus" => s.e.ui_stack = r.e.ui_stack
<1>1. r.e \in Evidences /\ r = [mode |-> r.mode, e |-> r.e]
  BY DEF Readers
<1>2. \A kind \in {"flush", "delta", "exit"} : Reading(b, r, Packet(Plain(kind), k)) = r
  BY <1>1 DEF Reading, Packet, Plain, Apply
<1> QED BY <1>1, <1>2 DEF Reading, Packet, Plain, Apply, Evidences

LEMMA PacketTyped == \A p \in Messages, k \in Nat : Packet(p, k) \in Packets
BY DEF Packet, Packets

\* What the game emits, packet by packet.
Emitted(ch, messages, k) == ch \o [i \in DOMAIN messages |-> [m |-> messages[i], of |-> k]]

LEMMA EmitsOne ==
  ASSUME NEW ch \in Seq(Packets), NEW k \in Nat, NEW a \in Messages
  PROVE  Emitted(ch, <<a>>, k)
           = Append(ch, Packet(a, k))
<1> DEFINE A == Packet(a, k)
<1>1. A \in Packets
  BY PacketTyped
<1>2. [i \in DOMAIN <<a>> |-> [m |-> <<a>>[i], of |-> k]] = <<A>>
  BY DEF Packet
<1> HIDE DEF A
<1>3. ch \o <<A>> = Append(ch, A)
  BY <1>1
<1> QED BY <1>2, <1>3 DEF Emitted, A

LEMMA EmitsTwo ==
  ASSUME NEW ch \in Seq(Packets), NEW k \in Nat, NEW a \in Messages, NEW b \in Messages
  PROVE  Emitted(ch, <<a, b>>, k)
           = Append(Append(ch, Packet(a, k)), Packet(b, k))
<1> DEFINE A == Packet(a, k)
           B == Packet(b, k)
<1>1. A \in Packets /\ B \in Packets
  BY PacketTyped
<1>2. [i \in DOMAIN <<a, b>> |-> [m |-> <<a, b>>[i], of |-> k]] = <<A, B>>
  BY DEF Packet
<1> HIDE DEF A, B
<1>3. ch \o <<A, B>> = Append(Append(ch, A), B)
  BY <1>1
<1> QED BY <1>2, <1>3 DEF Emitted, A, B

LEMMA EmitsThree ==
  ASSUME NEW ch \in Seq(Packets), NEW k \in Nat, NEW a \in Messages, NEW b \in Messages, NEW c \in Messages
  PROVE  Emitted(ch, <<a, b, c>>, k)
           = Append(Append(Append(ch, Packet(a, k)), Packet(b, k)), Packet(c, k))
<1> DEFINE A == Packet(a, k)
           B == Packet(b, k)
           C == Packet(c, k)
<1>1. A \in Packets /\ B \in Packets /\ C \in Packets
  BY PacketTyped
<1>2. [i \in DOMAIN <<a, b, c>> |-> [m |-> <<a, b, c>>[i], of |-> k]] = <<A, B, C>>
  BY DEF Packet
<1> HIDE DEF A, B, C
<1>3. ch \o <<A, B, C>> = Append(Append(Append(ch, A), B), C)
  BY <1>1
<1> QED BY <1>2, <1>3 DEF Emitted, A, B, C

LEMMA EmitsMore ==
  ASSUME NEW ch \in Seq(Packets), NEW k \in Nat, NEW ms \in Seq(Messages), NEW d \in Messages
  PROVE  Emitted(ch, Append(ms, d), k) = Append(Emitted(ch, ms, k), Packet(d, k))
<1> DEFINE t == [i \in DOMAIN ms |-> [m |-> ms[i], of |-> k]]
           E == Packet(d, k)
           l == Append(ms, d)
           u == [i \in DOMAIN l |-> [m |-> l[i], of |-> k]]
<1>1. /\ DOMAIN ms = 1..Len(ms) /\ Len(ms) \in Nat
      /\ l \in Seq(Messages) /\ DOMAIN l = 1..(Len(ms) + 1) /\ Len(l) = Len(ms) + 1
      /\ l[Len(ms) + 1] = d /\ \A i \in 1..Len(ms) : l[i] = ms[i]
  OBVIOUS
<1> HIDE DEF l
<1>2. E \in Packets /\ E = [m |-> d, of |-> k]
  BY PacketTyped DEF Packet
<1>3. t \in Seq(Packets) /\ Len(t) = Len(ms) /\ \A i \in 1..Len(ms) : t[i] = [m |-> ms[i], of |-> k]
  <2>1. t \in [1..Len(ms) -> Packets]
    BY <1>1, PacketTyped DEF Packet
  <2> QED BY <1>1, <2>1
<1>4. u \in Seq(Packets) /\ Len(u) = Len(ms) + 1
      /\ \A i \in 1..(Len(ms) + 1) : u[i] = [m |-> l[i], of |-> k]
  <2>1. u \in [1..(Len(ms) + 1) -> Packets]
    BY <1>1, PacketTyped DEF Packet
  <2> QED BY <1>1, <2>1
<1> HIDE DEF t, u, E
<1> DEFINE n == Len(ms) + 1
           v == Append(t, E)
<1>5. u = v
  <2>1. v \in Seq(Packets) /\ Len(v) = n /\ v[n] = E /\ \A i \in 1..Len(ms) : v[i] = t[i]
    BY <1>1, <1>2, <1>3
  <2>2. \A i \in 1..n : i = n \/ i \in 1..Len(ms)
    BY <1>1
  <2> HIDE DEF v
  <2>3. \A i \in 1..n : u[i] = v[i]
    BY <1>1, <1>2, <1>3, <1>4, <2>1, <2>2
  <2> QED BY <1>4, <2>1, <2>3
<1>6. ch \o Append(t, E) = Append(ch \o t, E)
  BY <1>2, <1>3
<1> QED BY <1>5, <1>6 DEF Emitted, t, u, E, l

LEMMA EmitFlush ==
  ASSUME NEW b, NEW h, NEW n, NEW ch, NEW r \in Readers, NEW rests, NEW k \in Nat,
         Leads(b, h, n, ch, r, FALSE), b \in Guarded => k = n,
         b = "quiescence" \/ Busy(b, r) \/ rests
  PROVE  Leads(b, h, n, Append(ch, Packet(Flush, k)), r, rests)
<1> DEFINE p == Packet(Flush, k)
<1>1. p \in Packets /\ p.m.msg = "flush" /\ p.of = k
  BY MessageKinds, PacketTyped DEF Packet, Flush, Plain
<1>2. Reading(b, r, p) = r
  BY ReadsPlain DEF Flush
<1> HIDE DEF p
<1>3. Leads(b, h, n, Append(ch, p), Reading(b, r, p), rests)
  BY <1>1, <1>2, LeadsAppend
<1> QED BY <1>2, <1>3 DEF p

LEMMA EmitOther ==
  ASSUME NEW b, NEW h, NEW n, NEW ch, NEW r \in Readers, NEW rests, NEW k \in Nat,
         NEW a \in Messages, a.msg # "flush",
         Leads(b, h, n, ch, r, FALSE), b \in Guarded => k = n
  PROVE  /\ Reading(b, r, Packet(a, k)) \in Readers
         /\ Leads(b, h, n, Append(ch, Packet(a, k)), Reading(b, r, Packet(a, k)), rests)
<1> DEFINE p == Packet(a, k)
<1>1. p \in Packets /\ p.m.msg # "flush" /\ p.of = k
  BY PacketTyped DEF Packet
<1> HIDE DEF p
<1>2. Reading(b, r, p) \in Readers
  BY <1>1, ReadingTyped
<1>3. Leads(b, h, n, Append(ch, p), Reading(b, r, p), rests)
  BY <1>1, LeadsAppend
<1> QED BY <1>2, <1>3 DEF p

\* A batch of one, two or three messages and a flush.
LEMMA EmitBatch ==
  ASSUME NEW b, NEW h, NEW n, NEW ch, NEW r \in Readers, NEW rests, NEW k \in Nat,
         Leads(b, h, n, ch, r, FALSE), b \in Guarded => k = n,
         NEW a \in Messages, a.msg # "flush", NEW c \in Messages, c.msg # "flush",
         NEW d \in Messages, d.msg # "flush"
  PROVE  LET s == Reading(b, r, Packet(a, k))
             t == Reading(b, s, Packet(c, k))
             u == Reading(b, t, Packet(d, k)) IN
         /\ s \in Readers /\ t \in Readers /\ u \in Readers
         /\ b = "quiescence" \/ Busy(b, r) \/ rests
              => Leads(b, h, n, Emitted(ch, <<Flush>>, k), r, rests)
         /\ b = "quiescence" \/ Busy(b, s) \/ rests
              => Leads(b, h, n, Emitted(ch, <<a, Flush>>, k), s, rests)
         /\ b = "quiescence" \/ Busy(b, t) \/ rests
              => Leads(b, h, n, Emitted(ch, <<a, c, Flush>>, k), t, rests)
         /\ b = "quiescence" \/ Busy(b, u) \/ rests
              => Leads(b, h, n, Emitted(ch, <<a, c, d, Flush>>, k), u, rests)
<1> DEFINE s == Reading(b, r, Packet(a, k))
           t == Reading(b, s, Packet(c, k))
           u == Reading(b, t, Packet(d, k))
           x == Append(ch, Packet(a, k))
           y == Append(x, Packet(c, k))
           z == Append(y, Packet(d, k))
<1>0. ch \in Seq(Packets) /\ Flush \in Messages
  BY MessageKinds DEF Leads
<1>1. s \in Readers /\ Leads(b, h, n, x, s, FALSE)
  BY EmitOther
<1> HIDE DEF s, x
<1>2. t \in Readers /\ Leads(b, h, n, y, t, FALSE)
  BY <1>1, EmitOther
<1> HIDE DEF t, y
<1>3. u \in Readers /\ Leads(b, h, n, z, u, FALSE)
  BY <1>2, EmitOther
<1> HIDE DEF u, z
<1>4. b = "quiescence" \/ Busy(b, r) \/ rests => Leads(b, h, n, Append(ch, Packet(Flush, k)), r, rests)
  BY EmitFlush
<1>5. b = "quiescence" \/ Busy(b, s) \/ rests => Leads(b, h, n, Append(x, Packet(Flush, k)), s, rests)
  BY <1>1, EmitFlush
<1>6. b = "quiescence" \/ Busy(b, t) \/ rests => Leads(b, h, n, Append(y, Packet(Flush, k)), t, rests)
  BY <1>2, EmitFlush
<1>7. b = "quiescence" \/ Busy(b, u) \/ rests => Leads(b, h, n, Append(z, Packet(Flush, k)), u, rests)
  BY <1>3, EmitFlush
<1>8. Emitted(ch, <<Flush>>, k) = Append(ch, Packet(Flush, k))
  BY <1>0, EmitsOne
<1>9. Emitted(ch, <<a, Flush>>, k) = Append(x, Packet(Flush, k))
  BY <1>0, EmitsTwo DEF x
<1>10. Emitted(ch, <<a, c, Flush>>, k) = Append(y, Packet(Flush, k))
  BY <1>0, EmitsThree DEF x, y
<1>11. Emitted(ch, <<a, c, d, Flush>>, k) = Append(z, Packet(Flush, k))
  <2>1. <<a, c, d>> \in Seq(Messages) /\ <<a, c, d, Flush>> = Append(<<a, c, d>>, Flush)
    BY <1>0
  <2>2. Emitted(ch, <<a, c, d>>, k) = z
    BY <1>0, EmitsThree DEF x, y, z
  <2> QED BY <1>0, <2>1, <2>2, EmitsMore
<1>12. /\ s \in Readers /\ t \in Readers /\ u \in Readers
       /\ b = "quiescence" \/ Busy(b, r) \/ rests
            => Leads(b, h, n, Emitted(ch, <<Flush>>, k), r, rests)
       /\ b = "quiescence" \/ Busy(b, s) \/ rests
            => Leads(b, h, n, Emitted(ch, <<a, Flush>>, k), s, rests)
       /\ b = "quiescence" \/ Busy(b, t) \/ rests
            => Leads(b, h, n, Emitted(ch, <<a, c, Flush>>, k), t, rests)
       /\ b = "quiescence" \/ Busy(b, u) \/ rests
            => Leads(b, h, n, Emitted(ch, <<a, c, d, Flush>>, k), u, rests)
  BY <1>1, <1>2, <1>3, <1>4, <1>5, <1>6, <1>7, <1>8, <1>9, <1>10, <1>11
<1> QED BY <1>12 DEF s, t, u

\* The same for a batch of one message, read as s.
LEMMA EmitPair ==
  ASSUME NEW b, NEW h, NEW n, NEW ch, NEW r \in Readers, NEW rests, NEW k \in Nat,
         Leads(b, h, n, ch, r, FALSE), b \in Guarded => k = n,
         NEW a \in Messages, a.msg # "flush", NEW s, s = Reading(b, r, Packet(a, k)),
         b = "quiescence" \/ Busy(b, s) \/ rests
  PROVE  s \in Readers /\ Leads(b, h, n, Emitted(ch, <<a, Flush>>, k), s, rests)
BY EmitBatch
-------------------------------------------------------------------------------
(* The invariant.                                                             *)

Types ==
  /\ client \in Clients /\ boundary \in Boundaries /\ evidence \in Evidences
  /\ lastMode \in Modes \union {NoMode} /\ sent \in Nat
  /\ phase \in {"waiting", "running", "generating", "over"} /\ mode \in Modes
  /\ ui \in Seq(BOOLEAN) /\ line \in BOOLEAN /\ taken \in Nat
  /\ inbox \in Seq(Inputs) /\ channel \in Seq(Packets)

Guards == boundary \in Guarded
Tight == boundary # "quiescence"
Rests == phase = "waiting" /\ inbox = <<>>
Holds == [mode |-> lastMode, e |-> evidence]

\* The game is in a mode but 0, or asks for text, only where it reads input with no layer
\* open; after a guarded key it runs without one.
GameShape ==
  /\ mode # 0 => phase = "waiting" /\ ui = <<>> /\ ~line
  /\ line => phase = "waiting" /\ ui = <<>>
  /\ Guards /\ phase = "running" => ui = <<>>

\* A reader that has read everything knows the game's mode, and in a guarded exchange
\* its layers; while the game runs, it knows that.
Agrees(r) ==
  /\ r.mode = mode \/ (r.mode = NoMode /\ mode = 0)
  /\ Guards => r.e.ui_stack = ui
  /\ Tight /\ phase \in {"running", "generating"} => Busy(boundary, r)
Replayed ==
  \E r \in Readers : Leads(boundary, Holds, sent + 1, channel, r, Rests) /\ Agrees(r)

\* A key but a plain one is sent when everything is read, and so is its probe.
Asked ==
  /\ Tight /\ inbox # <<>> =>
       /\ Len(inbox) = 1 /\ channel = <<>> /\ mode # 0 /\ evidence = NoEvidence
       /\ client \in {"probing", "receiving"}
  /\ Tight /\ client = "probing" => evidence = NoEvidence /\ (channel = <<>> => mode # 0)

\* Where an exchange may end.
Ends ==
  /\ Guards /\ client \in {"settling", "deciding"} => Rests /\ channel = <<>>
  /\ client = "deciding" /\ lastMode \notin {0, NoMode} => Rests /\ channel = <<>>

\* Evidence that says anything was said after the exchange's own key.
OfItsKey ==
  /\ evidence.of \in {0, sent + 1} /\ (evidence.of = 0 => evidence = NoEvidence)
  /\ ~Guards => evidence = NoEvidence
  /\ boundary = "level-transition" /\ client \in {"settling", "deciding"} => evidence.of # 0

BInv ==
  /\ Types /\ GameShape /\ Replayed /\ Asked /\ Ends /\ OfItsKey
  /\ Counted(taken, inbox, sent + 1)
-------------------------------------------------------------------------------
(* The game.                                                                  *)

\* What holds whenever the game can move.
MayMove(r) ==
  /\ r \in Readers /\ Leads(boundary, Holds, sent + 1, channel, r, FALSE) /\ Agrees(r)
  /\ ~(Guards /\ client \in {"settling", "deciding"})
  /\ ~(client = "deciding" /\ lastMode \notin {0, NoMode})

LEMMA GameMay ==
  ASSUME BInv, ~Rests
  PROVE  \E r \in Readers : MayMove(r)
<1>1. PICK r \in Readers : Leads(boundary, Holds, sent + 1, channel, r, Rests) /\ Agrees(r)
  BY DEF BInv, Replayed
<1>2. Leads(boundary, Holds, sent + 1, channel, r, FALSE)
  BY <1>1, LeadsWeaken
<1> QED BY <1>1, <1>2 DEF BInv, Ends, MayMove

\* A key but a plain one is taken by a game that shows no layer and is heard.
LEMMA Waiting ==
  ASSUME BInv, inbox # <<>>
  PROVE  /\ Tail(inbox) \in Seq(Inputs)
         /\ Tight => /\ Tail(inbox) = <<>> /\ channel = <<>> /\ mode # 0
                     /\ phase = "waiting" /\ ui = <<>> /\ ~line
<1>1. inbox \in Seq(Inputs)
  BY DEF BInv, Types
<1>2. Tail(inbox) \in Seq(Inputs) /\ (Len(inbox) = 1 => Len(Tail(inbox)) = 0)
  BY <1>1
<1>3. \A s \in Seq(Inputs) : Len(s) = 0 => s = <<>>
  OBVIOUS
<1>6. Len(inbox) = 1 => Tail(inbox) = <<>>
  BY <1>2, <1>3
<1>4. Tight => Len(inbox) = 1 /\ channel = <<>> /\ mode # 0
  BY DEF BInv, Asked
<1>5. mode # 0 => phase = "waiting" /\ ui = <<>> /\ ~line
  BY DEF BInv, GameShape
<1> QED BY <1>2, <1>4, <1>5, <1>6

LEMMA Running ==
  ASSUME BInv, phase # "waiting"
  PROVE  mode = 0 /\ ~line /\ (Tight => inbox = <<>> /\ (client = "probing" => channel # <<>>))
BY DEF BInv, Asked, GameShape

\* A step of the game that leaves the client alone.
LEMMA GameKeeps ==
  ASSUME BInv, UNCHANGED clientVars, NEW r \in Readers, MayMove(r), NEW s \in Readers,
         phase' \in {"waiting", "running", "generating", "over"}, mode' \in Modes,
         ui' \in Seq(BOOLEAN), line' \in BOOLEAN, taken' \in Nat, inbox' \in Seq(Inputs),
         GameShape', Counted(taken', inbox', sent + 1),
         Tight => inbox' = <<>>, Tight /\ client = "probing" /\ channel' = <<>> => mode' # 0,
         Leads(boundary, Holds, sent + 1, channel', s, Rests'), Agrees(s)'
  PROVE  BInv'
<1>1. /\ client' = client /\ boundary' = boundary /\ evidence' = evidence
      /\ lastMode' = lastMode /\ sent' = sent /\ Holds' = Holds
  BY DEF clientVars, Holds
<1>2. channel' \in Seq(Packets)
  BY DEF Leads
<1>3. Types'
  BY <1>1, <1>2 DEF BInv, Types
<1>4. Replayed'
  BY <1>1 DEF Replayed
<1>5. Asked'
  BY <1>1 DEF BInv, Asked, Tight
<1>6. Ends'
  BY <1>1 DEF MayMove, Ends, Guards
<1>7. OfItsKey'
  BY <1>1 DEF BInv, OfItsKey, Guards
<1> QED BY <1>1, <1>3, <1>4, <1>5, <1>6, <1>7 DEF BInv

LEMMA KeysAreInputs == \A kind \in DOMAIN Boundary : kind \in Inputs /\ kind # "probe"
BY DEF Boundary, Inputs

LEMMA Emission ==
  ASSUME NEW messages, NEW k, Emits(messages, k)
  PROVE  channel' = Emitted(channel, messages, k)
BY DEF Emits, Emitted

LEMMA EmittedSome ==
  ASSUME NEW ch \in Seq(Packets), NEW k \in Nat, NEW messages \in Seq(Messages), messages # <<>>
  PROVE  Emitted(ch, messages, k) # <<>>
<1> DEFINE t == [i \in DOMAIN messages |-> [m |-> messages[i], of |-> k]]
<1>1. DOMAIN messages = 1..Len(messages) /\ Len(messages) \in Nat /\ Len(messages) > 0
  OBVIOUS
<1>2. t \in Seq(Packets) /\ Len(t) = Len(messages)
  <2>1. t \in [1..Len(messages) -> Packets]
    BY <1>1, PacketTyped DEF Packet
  <2> QED BY <1>1, <2>1
<1> HIDE DEF t
<1>3. Len(ch \o t) = Len(ch) + Len(t) /\ Len(ch) \in Nat /\ Len(<<>>) = 0
  BY <1>2
<1> QED BY <1>1, <1>2, <1>3 DEF Emitted, t

LEMMA Concatenations ==
  ASSUME NEW a \in Messages, NEW b \in Messages, NEW c \in Messages
  PROVE  /\ <<>> \o <<a>> = <<a>> /\ <<a>> \o <<>> = <<a>>
         /\ <<>> \o <<a, b>> = <<a, b>> /\ <<a>> \o <<b>> = <<a, b>>
         /\ <<a, b>> \o <<c>> = <<a, b, c>> /\ <<>> \o <<>> = <<>>
<1>1. \A t \in Seq(Messages) : <<>> \o t = t /\ t \o <<>> = t
  OBVIOUS
<1>2. \A t \in Seq(Messages), x \in Messages : t \o <<x>> = Append(t, x)
  OBVIOUS
<1>3. <<>> \in Seq(Messages) /\ <<a>> \in Seq(Messages) /\ <<a, b>> \in Seq(Messages)
  OBVIOUS
<1>6. <<a, b>> = Append(<<a>>, b)
  BY <1>3
<1>7. <<a, b, c>> = Append(<<a, b>>, c)
  BY <1>3
<1>4. <<a>> \o <<b>> = <<a, b>>
  BY <1>2, <1>3, <1>6
<1>5. <<a, b>> \o <<c>> = <<a, b, c>>
  BY <1>2, <1>3, <1>7
<1> QED BY <1>1, <1>3, <1>4, <1>5

LEMMA TurnMessages ==
  ASSUME NEW x \in Messages
  PROVE  /\ <<>> \o <<>> \o <<Flush>> = <<Flush>>
         /\ <<>> \o <<Mode(0)>> \o <<Flush>> = <<Mode(0), Flush>>
         /\ <<x>> \o <<>> \o <<Flush>> = <<x, Flush>>
         /\ <<x>> \o <<Mode(0)>> \o <<Flush>> = <<x, Mode(0), Flush>>
<1>1. Mode(0) \in Messages /\ Flush \in Messages
  BY MessageKinds DEF Modes
<1> DEFINE f == Flush
           m == Mode(0)
<1>2. m \in Messages /\ f \in Messages
  BY <1>1
<1> HIDE DEF f, m
<1>3. /\ <<>> \o <<m>> = <<m>> /\ <<m>> \o <<f>> = <<m, f>> /\ <<>> \o <<>> = <<>>
  BY <1>2, Concatenations
<1>4. <<>> \o <<f>> = <<f>>
  BY <1>2, Concatenations
<1>5. <<x>> \o <<m>> = <<x, m>> /\ <<x, m>> \o <<f>> = <<x, m, f>>
  BY <1>2, Concatenations
<1>6. <<x>> \o <<>> = <<x>> /\ <<x>> \o <<f>> = <<x, f>>
  BY <1>2, Concatenations
<1> QED BY <1>3, <1>4, <1>5, <1>6 DEF f, m

\* A loose exchange in which the game leaves what it showed and runs.
LEMMA LooseTurn ==
  ASSUME BInv, ~Tight, NEW r, MayMove(r), NEW k \in Nat, NEW x \in Messages,
         x.msg \notin {"flush", "input_mode"}, NEW pre \in {<<>>, <<x>>},
         Emits(pre \o ModeChange(0) \o <<Flush>>, k)
  PROVE  \E s \in Readers : /\ Leads(boundary, Holds, sent + 1, channel', s, Rests')
                            /\ s.mode \in {0, NoMode}
<1>1. boundary = "quiescence" /\ boundary \notin Guarded
  BY DEF Tight, Guarded
<1>2. Mode(0) \in Messages /\ Mode(0).msg # "flush"
  BY MessageKinds DEF Mode, Modes
<1>3. r \in Readers /\ Leads(boundary, Holds, sent + 1, channel, r, FALSE)
      /\ (r.mode = mode \/ (r.mode = NoMode /\ mode = 0))
  BY DEF MayMove, Agrees
<1> DEFINE p == Packet(x, k)
           q == Packet(Mode(0), k)
<1>4. Reading(boundary, r, p) \in Readers /\ Reading(boundary, r, p).mode = r.mode
  <2>1. p \in Packets /\ p.m.msg # "input_mode"
    BY PacketTyped DEF Packet
  <2> HIDE DEF p
  <2> QED BY <1>3, <2>1, ReadingTyped DEF Reading
<1>5. \A t \in Readers : Reading(boundary, t, q) \in Readers /\ Reading(boundary, t, q).mode = 0
  <2>1. q \in Packets /\ q.m.msg = "input_mode" /\ q.m.mode = 0
    BY <1>2, PacketTyped DEF Packet, Mode
  <2> HIDE DEF q
  <2> QED BY <2>1, ReadingTyped DEF Reading
<1> HIDE DEF p, q
<1>6. CASE pre = <<>>
  <2>1. CASE mode = 0
    <3>1. pre \o ModeChange(0) \o <<Flush>> = <<Flush>>
      BY <1>6, <2>1, TurnMessages DEF ModeChange
    <3>2. channel' = Emitted(channel, <<Flush>>, k)
      BY <3>1, Emission
    <3>3. Leads(boundary, Holds, sent + 1, channel', r, Rests')
      BY <1>1, <1>2, <1>3, <3>2, EmitBatch
    <3> QED BY <1>3, <2>1, <3>3
  <2>2. CASE mode # 0
    <3>1. pre \o ModeChange(0) \o <<Flush>> = <<Mode(0), Flush>>
      BY <1>6, <2>2, TurnMessages DEF ModeChange
    <3>2. channel' = Emitted(channel, <<Mode(0), Flush>>, k)
      BY <3>1, Emission
    <3>3. Leads(boundary, Holds, sent + 1, channel', Reading(boundary, r, q), Rests')
      BY <1>1, <1>2, <1>3, <3>2, EmitBatch DEF q
    <3> QED BY <1>3, <1>5, <3>3
  <2> QED BY <2>1, <2>2
<1>7. CASE pre = <<x>>
  <2>1. CASE mode = 0
    <3>1. pre \o ModeChange(0) \o <<Flush>> = <<x, Flush>>
      BY <1>7, <2>1, TurnMessages DEF ModeChange
    <3>2. channel' = Emitted(channel, <<x, Flush>>, k)
      BY <3>1, Emission
    <3>3. Leads(boundary, Holds, sent + 1, channel', Reading(boundary, r, p), Rests')
      BY <1>1, <1>2, <1>3, <3>2, EmitBatch DEF p
    <3> QED BY <1>3, <1>4, <2>1, <3>3
  <2>2. CASE mode # 0
    <3>1. pre \o ModeChange(0) \o <<Flush>> = <<x, Mode(0), Flush>>
      BY <1>7, <2>2, TurnMessages DEF ModeChange
    <3>2. channel' = Emitted(channel, <<x, Mode(0), Flush>>, k)
      BY <3>1, Emission
    <3>3. Leads(boundary, Holds, sent + 1, channel', Reading(boundary, Reading(boundary, r, p), q), Rests')
      BY <1>1, <1>2, <1>3, <3>2, EmitBatch DEF p, q
    <3> QED BY <1>4, <1>5, <3>3
  <2> QED BY <2>1, <2>2
<1> QED BY <1>6, <1>7

LEMMA TakesKeyBInv == ASSUME BInv, TakesKey PROVE BInv'
<1>1. PICK kind \in DOMAIN Boundary : Reads(kind)
  BY DEF TakesKey
<1>2. inbox # <<>> /\ Head(inbox) = kind /\ inbox' = Tail(inbox)
  BY <1>1 DEF Reads
<1>3. PICK r \in Readers : MayMove(r)
  BY <1>2, GameMay DEF Rests
<1>4. /\ inbox' \in Seq(Inputs)
      /\ Tight => /\ inbox' = <<>> /\ channel = <<>> /\ mode # 0
                  /\ phase = "waiting" /\ ui = <<>> /\ ~line
  BY <1>2, Waiting
<1>5. Types
  BY DEF BInv
<1>6. /\ taken' = taken + 1 /\ taken' \in Nat /\ phase = "waiting" /\ UNCHANGED clientVars
      /\ Counted(taken', inbox', sent + 1)
  <2>1. taken' = taken + 1 /\ phase = "waiting" /\ UNCHANGED clientVars
    BY DEF TakesKey
  <2>2. Counted(taken + (IF Head(inbox) = "probe" THEN 0 ELSE 1), Tail(inbox), sent + 1)
    BY <1>2, <1>5, CountedTail DEF BInv, Types
  <2> QED BY <1>2, <1>5, <2>1, <2>2, KeysAreInputs DEF Types
<1>7. Tight => taken' = sent + 1
  BY <1>4, <1>6, CountedEmpty
<1>8. /\ Leads(boundary, Holds, sent + 1, channel, r, FALSE)
      /\ r.mode = mode \/ (r.mode = NoMode /\ mode = 0)
      /\ Guards => r.e.ui_stack = ui
  BY <1>3 DEF MayMove, Agrees
<1>9. boundary' = boundary
  BY <1>6 DEF clientVars
<1>10. CASE UNCHANGED <<phase, mode, ui, line, channel>>
  <2>1. Leads(boundary, Holds, sent + 1, channel', r, Rests')
    BY <1>8, <1>10, LeadsWeaken
  <2>2. Agrees(r)' /\ GameShape'
    BY <1>6, <1>8, <1>9, <1>10 DEF Agrees, Guards, GameShape, BInv
  <2>3. Tight /\ client = "probing" /\ channel' = <<>> => mode' # 0
    BY <1>4, <1>10
  <2> QED BY <1>3, <1>4, <1>5, <1>6, <1>10, <2>1, <2>2, <2>3, GameKeeps DEF Types
<1>11. ASSUME ui # <<>> PROVE ~Tight /\ ~Guards /\ mode = 0 /\ ~line
  BY <1>4, <1>11 DEF BInv, GameShape, Guards, Tight, Guarded
<1>12. CASE ui # <<>> /\ Emits(<<Plain("delta"), Flush>>, taken') /\ UNCHANGED <<phase, mode, ui, line>>
  <2>1. Plain("delta") \in Messages /\ Plain("delta").msg # "flush"
    BY MessageKinds DEF Plain
  <2>2. channel' = Emitted(channel, <<Plain("delta"), Flush>>, taken')
    BY <1>12, Emission
  <2>3. Leads(boundary, Holds, sent + 1, channel', Reading(boundary, r, Packet(Plain("delta"), taken')), Rests')
    BY <1>6, <1>8, <1>11, <1>12, <2>1, <2>2, EmitBatch DEF Tight, Guards
  <2>4. Reading(boundary, r, Packet(Plain("delta"), taken')) = r
    BY <1>6, ReadsPlain
  <2>5. Agrees(r)' /\ GameShape'
    BY <1>6, <1>8, <1>9, <1>12 DEF Agrees, Guards, GameShape, BInv
  <2> QED BY <1>3, <1>4, <1>5, <1>6, <1>11, <1>12, <2>3, <2>4, <2>5, GameKeeps DEF Types
<1>13. ASSUME phase' = "running", mode' = 0, ui' \in Seq(BOOLEAN), line' = FALSE, ~Tight,
              NEW x \in Messages, x.msg \notin {"flush", "input_mode"}, NEW pre \in {<<>>, <<x>>},
              Emits(pre \o ModeChange(0) \o <<Flush>>, taken')
       PROVE  BInv'
  <2>1. PICK s \in Readers : /\ Leads(boundary, Holds, sent + 1, channel', s, Rests')
                             /\ s.mode \in {0, NoMode}
    BY <1>3, <1>6, <1>13, LooseTurn
  <2>2. Agrees(s)' /\ GameShape'
    BY <1>9, <1>13, <2>1 DEF Agrees, GameShape, Guards, Tight, Guarded
  <2> QED BY <1>3, <1>4, <1>6, <1>13, <2>1, <2>2, GameKeeps DEF Modes
<1>14. CASE /\ ui # << >>
            /\ phase' = "running" /\ mode' = 0 /\ UNCHANGED line
            /\ \/ ui' = Front(ui) /\ Emits(<<Plain("ui-pop")>> \o ModeChange(0) \o <<Flush>>, taken')
               \/ ui' = << >> /\ Emits(<<Plain("close_all_menus")>> \o ModeChange(0) \o <<Flush>>, taken')
  <2>1. ui' \in Seq(BOOLEAN) /\ line' = FALSE
    <3>1. Front(ui) \in Seq(BOOLEAN) /\ <<>> \in Seq(BOOLEAN) /\ line = FALSE
      BY <1>5, <1>11, <1>14 DEF Types, Front
    <3> QED BY <1>14, <3>1
  <2>2. /\ Plain("ui-pop") \in Messages /\ Plain("ui-pop").msg \notin {"flush", "input_mode"}
        /\ Plain("close_all_menus") \in Messages
        /\ Plain("close_all_menus").msg \notin {"flush", "input_mode"}
    BY MessageKinds DEF Plain
  <2>3. CASE Emits(<<Plain("ui-pop")>> \o ModeChange(0) \o <<Flush>>, taken')
    BY <1>11, <1>13, <1>14, <2>1, <2>2, <2>3
  <2>4. CASE Emits(<<Plain("close_all_menus")>> \o ModeChange(0) \o <<Flush>>, taken')
    BY <1>11, <1>13, <1>14, <2>1, <2>2, <2>4
  <2> QED BY <1>14, <2>3, <2>4
<1>15. CASE /\ ui = << >>
            /\ phase' = "running" /\ mode' = 0 /\ line' = FALSE
            /\ Emits((IF line THEN <<Plain("close_input")>> ELSE << >>)
                       \o ModeChange(0) \o <<Flush>>, taken')
            /\ UNCHANGED ui
  <2>1. Plain("close_input") \in Messages /\ Plain("close_input").msg \notin {"flush", "input_mode"}
    BY MessageKinds DEF Plain
  <2>2. CASE ~Tight
    <3>1. ui' \in Seq(BOOLEAN) /\ line' = FALSE
      BY <1>5, <1>15 DEF Types
    <3>2. CASE line
      BY <1>13, <1>15, <2>1, <2>2, <3>1, <3>2
    <3>3. CASE ~line
      BY <1>13, <1>15, <2>1, <2>2, <3>1, <3>3
    <3> QED BY <3>2, <3>3
  <2>3. CASE Tight
    <3>1. channel = <<>> /\ mode # 0 /\ ~line /\ taken' = sent + 1
      BY <1>4, <1>7, <2>3
    <3>2. (IF line THEN <<Plain("close_input")>> ELSE << >>) \o ModeChange(0) \o <<Flush>>
            = <<Mode(0), Flush>>
      BY <2>1, <3>1, TurnMessages DEF ModeChange
    <3>3. channel' = Emitted(channel, <<Mode(0), Flush>>, taken')
      BY <1>15, <3>2, Emission
    <3>4. Mode(0) \in Messages /\ Mode(0).msg # "flush" /\ 0 \in Modes
      BY MessageKinds DEF Mode, Modes
    <3>5. r = Holds
      <4>1. Holds \in Readers
        BY <1>5 DEF Holds, Readers, Types
      <4> QED BY <1>8, <3>1, <4>1, LeadsEmpty
    <3>6. Guards => evidence = NoEvidence
      BY <1>2, <2>3 DEF BInv, Asked
    <3> DEFINE t == Reading(boundary, r, Packet(Mode(0), taken'))
    <3>7. Packet(Mode(0), taken') \in Packets /\ Packet(Mode(0), taken').m = [msg |-> "input_mode", mode |-> 0]
      BY <1>6, <3>4, PacketTyped DEF Packet, Mode
    <3>8. /\ t \in Readers /\ t.mode = 0
          /\ Guards => /\ t.e.input_mode = 0 /\ t.e.ui_stack = <<>> /\ ~t.e.line_input
                       /\ t.e.saw_busy
      <4>1. Guards => r.e = NoEvidence
        BY <3>5, <3>6 DEF Holds
      <4> DEFINE p == Packet(Mode(0), taken')
      <4>2. p \in Packets /\ p.m.msg = "input_mode" /\ p.m.mode = 0
        BY <3>7
      <4> HIDE DEF p
      <4>3. Reading(boundary, r, p) \in Readers
        BY <4>2, ReadingTyped
      <4>4. /\ Reading(boundary, r, p).mode = 0
            /\ Guards => /\ Reading(boundary, r, p).e.input_mode = 0
                         /\ Reading(boundary, r, p).e.ui_stack = r.e.ui_stack
                         /\ Reading(boundary, r, p).e.line_input = r.e.line_input
                         /\ Reading(boundary, r, p).e.saw_busy
        BY <4>2, ReadsMode DEF Guards
      <4> QED BY <4>1, <4>3, <4>4 DEF NoEvidence, p
    <3>9. Busy(boundary, t)
      BY <3>8 DEF Busy, Guards
    <3>10. Leads(boundary, Holds, sent + 1, channel', t, Rests')
      BY <1>6, <1>8, <3>1, <3>3, <3>4, <3>9, EmitBatch
    <3> HIDE DEF t
    <3>15. PICK s \in Readers :
             /\ s.mode = 0 /\ (Guards => s.e.ui_stack = <<>>) /\ Busy(boundary, s)
             /\ Leads(boundary, Holds, sent + 1, channel', s, Rests')
      BY <3>8, <3>9, <3>10
    <3>11. Agrees(s)' /\ GameShape'
      <4>1. phase' = "running" /\ mode' = 0 /\ ui' = <<>> /\ line' = FALSE
        BY <1>15
      <4>2. s.mode = 0 /\ Busy(boundary', s) /\ (boundary' \in Guarded => s.e.ui_stack = <<>>)
        BY <1>9, <3>15 DEF Guards
      <4>3. Agrees(s)'
        BY <4>1, <4>2 DEF Agrees, Guards
      <4> QED BY <4>1, <4>3 DEF GameShape
    <3>12. channel' # <<>>
      <4>1. <<Mode(0), Flush>> \in Seq(Messages) /\ <<Mode(0), Flush>> # <<>>
        BY <3>4, MessageKinds
      <4> QED BY <1>5, <1>6, <3>3, <4>1, EmittedSome DEF Types
    <3>13. phase' = "running" /\ mode' \in Modes /\ ui' \in Seq(BOOLEAN) /\ line' \in BOOLEAN
      BY <1>5, <1>15, <3>4 DEF Types
    <3> QED BY <1>3, <1>4, <1>6, <3>11, <3>12, <3>13, <3>15, GameKeeps
  <2> QED BY <2>2, <2>3
<1> QED BY <1>10, <1>12, <1>14, <1>15 DEF TakesKey

\* What is known while the game runs.
LEMMA GameRuns ==
  ASSUME BInv, phase \in {"running", "generating"}
  PROVE  \E r \in Readers :
           /\ MayMove(r) /\ mode = 0 /\ ~line /\ r.mode \in {0, NoMode}
           /\ Leads(boundary, Holds, sent + 1, channel, r, FALSE)
           /\ Tight => inbox = <<>> /\ taken = sent + 1 /\ Busy(boundary, r)
           /\ Guards => r.e.ui_stack = ui
           /\ Tight /\ client = "probing" => channel # <<>>
<1>1. PICK r \in Readers : MayMove(r)
  BY GameMay DEF Rests
<1>2. mode = 0 /\ ~line /\ (Tight => inbox = <<>> /\ (client = "probing" => channel # <<>>))
  BY Running
<1>3. Tight => taken = sent + 1
  BY <1>2, CountedEmpty DEF BInv
<1>4. /\ Leads(boundary, Holds, sent + 1, channel, r, FALSE)
      /\ r.mode = mode \/ (r.mode = NoMode /\ mode = 0)
      /\ Guards => r.e.ui_stack = ui
      /\ Tight => Busy(boundary, r)
  BY <1>1 DEF MayMove, Agrees
<1> QED BY <1>1, <1>2, <1>3, <1>4

\* A step of a game that runs, and then shows a reader what it shows.
LEMMA GameGoesOn ==
  ASSUME BInv, phase \in {"running", "generating"}, UNCHANGED <<clientVars, taken, inbox>>,
         phase' \in {"waiting", "running", "generating", "over"}, mode' \in Modes,
         ui' \in Seq(BOOLEAN), line' \in BOOLEAN, GameShape', NEW s \in Readers,
         Leads(boundary, Holds, sent + 1, channel', s, Rests'), Agrees(s)',
         Tight /\ client = "probing" => channel' # <<>>
  PROVE  BInv'
<1>1. PICK r \in Readers : MayMove(r) /\ (Tight => inbox = <<>>)
  BY GameRuns
<1>2. /\ taken' \in Nat /\ inbox' \in Seq(Inputs) /\ Counted(taken', inbox', sent + 1)
      /\ Tight => inbox' = <<>>
  BY <1>1 DEF BInv, Types
<1> QED BY <1>1, <1>2, GameKeeps

LEMMA BatchIsSome ==
  ASSUME NEW ch \in Seq(Packets), NEW k \in Nat, NEW a \in Messages, NEW b \in Messages,
         NEW c \in Messages
  PROVE  /\ Emitted(ch, <<a>>, k) # <<>> /\ Emitted(ch, <<a, b>>, k) # <<>>
         /\ Emitted(ch, <<a, b, c>>, k) # <<>>
<1>1. <<a>> \in Seq(Messages) /\ <<a>> # <<>>
  OBVIOUS
<1>2. <<a, b>> \in Seq(Messages) /\ <<a, b>> # <<>>
  OBVIOUS
<1>3. <<a, b, c>> \in Seq(Messages) /\ <<a, b, c>> # <<>>
  OBVIOUS
<1> QED BY <1>1, <1>2, <1>3, EmittedSome

LEMMA RendersBInv == ASSUME BInv, Renders PROVE BInv'
<1>1. phase = "running" /\ UNCHANGED <<clientVars, phase, mode, ui, line, taken, inbox>>
      /\ channel' = Emitted(channel, <<Plain("delta"), Flush>>, taken)
  BY Emission DEF Renders
<1>2. PICK r \in Readers :
           /\ MayMove(r)
           /\ Leads(boundary, Holds, sent + 1, channel, r, FALSE)
           /\ Tight => inbox = <<>> /\ taken = sent + 1 /\ Busy(boundary, r)
  BY <1>1, GameRuns
<1>3. /\ Plain("delta") \in Messages /\ Plain("delta").msg # "flush" /\ Flush \in Messages
      /\ taken \in Nat /\ channel \in Seq(Packets)
  BY MessageKinds DEF Plain, BInv, Types
<1>4. Reading(boundary, r, Packet(Plain("delta"), taken)) = r
  BY <1>3, ReadsPlain
<1>5. Leads(boundary, Holds, sent + 1, channel', r, Rests')
  <2>1. boundary \in Guarded => taken = sent + 1
    BY <1>2 DEF Tight, Guarded
  <2>2. boundary = "quiescence" \/ Busy(boundary, r)
    BY <1>2 DEF Tight
  <2> QED BY <1>1, <1>2, <1>3, <1>4, <2>1, <2>2, EmitPair
<1>6. Agrees(r)' /\ GameShape'
  <2>1. Agrees(r) /\ GameShape
    BY <1>2 DEF MayMove, BInv
  <2> QED BY <1>1, <2>1 DEF clientVars, Agrees, GameShape, Guards, Tight
<1>7. channel' # <<>>
  BY <1>1, <1>3, BatchIsSome
<1> QED BY <1>1, <1>2, <1>5, <1>6, <1>7, GameGoesOn DEF BInv, Types

LEMMA GeneratesBInv == ASSUME BInv, Generates PROVE BInv'
<1>1. phase = "running" /\ phase' = "generating"
      /\ UNCHANGED <<clientVars, mode, line, taken, inbox>>
  BY DEF Generates
<1>2. PICK r \in Readers :
           /\ MayMove(r) /\ mode = 0 /\ ~line /\ r.mode \in {0, NoMode}
           /\ Leads(boundary, Holds, sent + 1, channel, r, FALSE)
           /\ Tight => inbox = <<>> /\ taken = sent + 1 /\ Busy(boundary, r)
           /\ Guards => r.e.ui_stack = ui
           /\ Tight /\ client = "probing" => channel # <<>>
  BY <1>1, GameRuns
<1>3. boundary' = boundary
  BY <1>1 DEF clientVars
<1>4. CASE UNCHANGED <<ui, channel>>
  <2>1. Leads(boundary, Holds, sent + 1, channel', r, Rests')
    BY <1>2, <1>4, LeadsWeaken
  <2>2. Agrees(r)' /\ GameShape'
    BY <1>1, <1>2, <1>3, <1>4 DEF Agrees, GameShape, Guards, Tight
  <2> QED BY <1>1, <1>2, <1>4, <2>1, <2>2, GameGoesOn DEF BInv, Types
<1>5. CASE ui' = Append(ui, FALSE) /\ Emits(<<Push(FALSE), Flush>>, taken)
  <2>1. Push(FALSE) \in Messages /\ Push(FALSE).msg # "flush" /\ Flush \in Messages
        /\ taken \in Nat /\ channel \in Seq(Packets) /\ ui \in Seq(BOOLEAN)
    BY MessageKinds DEF Push, BInv, Types
  <2>2. channel' = Emitted(channel, <<Push(FALSE), Flush>>, taken)
    BY <1>5, Emission
  <2>3. Guards => ui = <<>> /\ ui' = <<FALSE>>
    <3>1. \A u : u = <<>> => <<FALSE>> = Append(u, FALSE)
      OBVIOUS
    <3> QED BY <1>1, <1>5, <3>1 DEF BInv, GameShape
  <2> DEFINE t == Reading(boundary, r, Packet(Push(FALSE), taken))
  <2>4. /\ t.mode = r.mode
        /\ Guards => /\ t.e.ui_stack = Append(r.e.ui_stack, FALSE)
                     /\ t.e.input_mode = r.e.input_mode
                     /\ t.e.line_input = r.e.line_input /\ t.e.saw_busy = r.e.saw_busy
    BY <2>1, ReadsPush DEF Guards
  <2>5. Guards => t.e.ui_stack = ui'
    BY <1>2, <1>5, <2>4
  <2>6. Tight => Busy(boundary, t)
    BY <1>2, <2>3, <2>4, <2>5 DEF Busy, Guards
  <2>7. t \in Readers /\ Leads(boundary, Holds, sent + 1, channel', t, Rests')
    <3>1. boundary \in Guarded => taken = sent + 1
      BY <1>2 DEF Tight, Guarded
    <3>2. boundary = "quiescence" \/ Busy(boundary, t)
      BY <2>6 DEF Tight
    <3> QED BY <1>2, <2>1, <2>2, <3>1, <3>2, EmitBatch
  <2> HIDE DEF t
  <2>8. PICK s \in Readers :
          /\ Leads(boundary, Holds, sent + 1, channel', s, Rests')
          /\ s.mode \in {0, NoMode} /\ (Guards => s.e.ui_stack = ui')
          /\ Tight => Busy(boundary, s)
    BY <1>2, <2>4, <2>5, <2>6, <2>7
  <2>9. Agrees(s)' /\ GameShape'
    BY <1>1, <1>2, <1>3, <2>8 DEF Agrees, GameShape, Guards, Tight
  <2>10. channel' # <<>>
    BY <2>1, <2>2, BatchIsSome
  <2>11. ui' \in Seq(BOOLEAN)
    <3>1. \A u \in Seq(BOOLEAN) : Append(u, FALSE) \in Seq(BOOLEAN)
      OBVIOUS
    <3> QED BY <1>5, <2>1, <3>1
  <2> QED BY <1>1, <1>2, <2>8, <2>9, <2>10, <2>11, GameGoesOn DEF BInv, Types
<1> QED BY <1>4, <1>5 DEF Generates

LEMMA GeneratedBInv == ASSUME BInv, Generated PROVE BInv'
<1>1. phase = "generating" /\ phase' = "running"
      /\ UNCHANGED <<clientVars, mode, line, taken, inbox>>
  BY DEF Generated
<1>2. PICK r \in Readers :
           /\ MayMove(r) /\ mode = 0 /\ ~line /\ r.mode \in {0, NoMode}
           /\ Leads(boundary, Holds, sent + 1, channel, r, FALSE)
           /\ Tight => inbox = <<>> /\ taken = sent + 1 /\ Busy(boundary, r)
           /\ Guards => r.e.ui_stack = ui
           /\ Tight /\ client = "probing" => channel # <<>>
  BY <1>1, GameRuns
<1>3. boundary' = boundary
  BY <1>1 DEF clientVars
<1>4. Guards => ui \in {<<>>, <<FALSE>>}
  BY <1>2 DEF Guards, Tight, Guarded, Busy
<1>5. CASE ~(ui # << >> /\ ~Last(ui)) /\ UNCHANGED <<ui, channel>>
  <2>1. Leads(boundary, Holds, sent + 1, channel', r, Rests')
    BY <1>2, <1>5, LeadsWeaken
  <2>2. Guards => ui' = <<>>
    <3>1. <<FALSE>> # <<>> /\ ~Last(<<FALSE>>)
      BY DEF Last
    <3> QED BY <1>4, <1>5, <3>1
  <2>3. Agrees(r)' /\ GameShape'
    BY <1>1, <1>2, <1>3, <1>5, <2>2 DEF Agrees, GameShape, Guards, Tight
  <2> QED BY <1>1, <1>2, <1>5, <2>1, <2>3, GameGoesOn DEF BInv, Types
<1>6. CASE ui # <<>> /\ ui' = Front(ui) /\ Emits(<<Plain("ui-pop"), Flush>>, taken)
  <2>1. Plain("ui-pop") \in Messages /\ Plain("ui-pop").msg # "flush" /\ Flush \in Messages
        /\ taken \in Nat /\ channel \in Seq(Packets) /\ ui \in Seq(BOOLEAN)
    BY MessageKinds DEF Plain, BInv, Types
  <2>2. channel' = Emitted(channel, <<Plain("ui-pop"), Flush>>, taken)
    BY <1>6, Emission
  <2>3. Guards => ui' = <<>>
    <3>1. Front(<<FALSE>>) = <<>>
      BY DEF Front
    <3> QED BY <1>4, <1>6, <3>1
  <2> DEFINE t == Reading(boundary, r, Packet(Plain("ui-pop"), taken))
  <2>4. /\ t.mode = r.mode
        /\ Guards => /\ t.e.ui_stack = IF r.e.ui_stack = <<>> THEN <<>> ELSE Front(r.e.ui_stack)
                     /\ t.e.input_mode = r.e.input_mode
                     /\ t.e.line_input = r.e.line_input /\ t.e.saw_busy = r.e.saw_busy
    BY <2>1, ReadsPop DEF Guards
  <2>5. Guards => t.e.ui_stack = ui'
    BY <1>2, <1>6, <2>4
  <2>6. Tight => Busy(boundary, t)
    BY <1>2, <2>3, <2>4, <2>5 DEF Busy, Guards
  <2>7. t \in Readers /\ Leads(boundary, Holds, sent + 1, channel', t, Rests')
    <3>1. boundary \in Guarded => taken = sent + 1
      BY <1>2 DEF Tight, Guarded
    <3>2. boundary = "quiescence" \/ Busy(boundary, t)
      BY <2>6 DEF Tight
    <3> QED BY <1>2, <2>1, <2>2, <3>1, <3>2, EmitBatch
  <2> HIDE DEF t
  <2>8. PICK s \in Readers :
          /\ Leads(boundary, Holds, sent + 1, channel', s, Rests')
          /\ s.mode \in {0, NoMode} /\ (Guards => s.e.ui_stack = ui')
          /\ Tight => Busy(boundary, s)
    BY <1>2, <2>4, <2>5, <2>6, <2>7
  <2>9. Agrees(s)' /\ GameShape'
    BY <1>1, <1>2, <1>3, <2>3, <2>8 DEF Agrees, GameShape, Guards, Tight
  <2>10. channel' # <<>>
    BY <2>1, <2>2, BatchIsSome
  <2>11. ui' \in Seq(BOOLEAN)
    BY <1>6, <2>1 DEF Front
  <2> QED BY <1>1, <1>2, <2>8, <2>9, <2>10, <2>11, GameGoesOn DEF BInv, Types
<1> QED BY <1>5, <1>6 DEF Generated

LEMMA ExitsBInv == ASSUME BInv, Exits PROVE BInv'
<1>1. phase = "running" /\ phase' = "over"
      /\ UNCHANGED <<clientVars, mode, ui, line, taken, inbox>>
      /\ channel' = Emitted(channel, <<Plain("exit")>>, taken)
  BY Emission DEF Exits
<1>2. PICK r \in Readers :
           /\ MayMove(r) /\ mode = 0 /\ ~line /\ r.mode \in {0, NoMode}
           /\ Leads(boundary, Holds, sent + 1, channel, r, FALSE)
           /\ Tight => taken = sent + 1
           /\ Guards => r.e.ui_stack = ui
  BY <1>1, GameRuns
<1>3. /\ Plain("exit") \in Messages /\ Plain("exit").msg # "flush"
      /\ taken \in Nat /\ channel \in Seq(Packets)
  BY MessageKinds DEF Plain, BInv, Types
<1>4. Reading(boundary, r, Packet(Plain("exit"), taken)) = r
  BY <1>3, ReadsPlain
<1>5. Leads(boundary, Holds, sent + 1, channel', r, Rests')
  <2>1. boundary \in Guarded => taken = sent + 1
    BY <1>2 DEF Tight, Guarded
  <2>2. channel' = Append(channel, Packet(Plain("exit"), taken))
    BY <1>1, <1>3, EmitsOne
  <2>3. Leads(boundary, Holds, sent + 1, Append(channel, Packet(Plain("exit"), taken)),
              Reading(boundary, r, Packet(Plain("exit"), taken)), Rests')
    <3> DEFINE x == Plain("exit")
    <3> HIDE DEF x
    <3>1. x \in Messages /\ x.msg # "flush"
      BY <1>3 DEF x
    <3>2. Leads(boundary, Holds, sent + 1, Append(channel, Packet(x, taken)),
                Reading(boundary, r, Packet(x, taken)), Rests')
      BY <1>2, <1>3, <2>1, <3>1, EmitOther
    <3> QED BY <3>2 DEF x
  <2> QED BY <1>4, <2>2, <2>3
<1>6. Agrees(r)' /\ GameShape'
  BY <1>1, <1>2 DEF clientVars, Agrees, GameShape, Guards, Tight
<1>7. channel' # <<>>
  BY <1>1, <1>3, BatchIsSome
<1> QED BY <1>1, <1>2, <1>5, <1>6, <1>7, GameGoesOn DEF BInv, Types

\* A game that comes to wait, having shown a reader where.
LEMMA WaitsThere ==
  ASSUME BInv, phase = "running", phase' = "waiting", UNCHANGED <<clientVars, taken, inbox>>,
         mode' \in Modes, ui' \in Seq(BOOLEAN), line' \in BOOLEAN, NEW s \in Readers,
         mode' # 0 => ui' = <<>> /\ ~line', line' => ui' = <<>>,
         s.mode = mode' \/ (s.mode = NoMode /\ mode' = 0), Guards => s.e.ui_stack = ui',
         Leads(boundary, Holds, sent + 1, channel', s, TRUE), channel' # <<>>
  PROVE  BInv'
<1>1. Tight => inbox = <<>>
  BY GameRuns
<1>2. Leads(boundary, Holds, sent + 1, channel', s, Rests')
  <2>1. TRUE => Rests' \/ channel' = <<>> \/ boundary = "quiescence"
    BY <1>1 DEF Rests, Tight
  <2> QED BY <2>1, LeadsWeaken
<1>3. boundary' = boundary
  BY DEF clientVars
<1>4. Agrees(s)' /\ GameShape'
  BY <1>3 DEF Agrees, GameShape, Guards
<1> QED BY <1>2, <1>4, GameGoesOn

LEMMA WaitsBInv == ASSUME BInv, Waits PROVE BInv'
<1>1. phase = "running" /\ phase' = "waiting" /\ UNCHANGED <<clientVars, taken, inbox>>
  BY DEF Waits
<1>2. PICK r \in Readers :
           /\ mode = 0 /\ ~line /\ r.mode \in {0, NoMode}
           /\ Leads(boundary, Holds, sent + 1, channel, r, FALSE)
           /\ Tight => taken = sent + 1
           /\ Guards => r.e.ui_stack = ui
  BY <1>1, GameRuns
<1>3. /\ Plain("delta") \in Messages /\ Plain("delta").msg # "flush" /\ Flush \in Messages
      /\ taken \in Nat /\ channel \in Seq(Packets) /\ ui \in Seq(BOOLEAN) /\ line \in BOOLEAN
      /\ mode \in Modes /\ (boundary \in Guarded => taken = sent + 1)
  BY <1>2, MessageKinds DEF Plain, BInv, Types, Tight, Guarded
<1>4. Guards => ui = <<>>
  BY <1>1 DEF BInv, GameShape
<1>5. ASSUME NEW m \in Modes \ {0}, ui = << >>, mode' = m,
             Emits(ModeChange(m) \o <<Plain("delta"), Flush>>, taken), UNCHANGED <<ui, line>>
      PROVE  BInv'
  <2> DEFINE q == Mode(m)
             d == Plain("delta")
             x == Packet(q, taken)
             t == Reading(boundary, r, x)
  <2>1. q \in Messages /\ q.msg = "input_mode" /\ q.mode = m
    BY MessageKinds DEF Mode
  <2>2. ModeChange(m) \o <<d, Flush>> = <<q, d, Flush>>
    <3>1. ModeChange(m) = <<q>>
      BY <1>2 DEF ModeChange
    <3> HIDE DEF q, d
    <3>2. <<q>> \in Seq(Messages) /\ <<d>> \in Seq(Messages)
      BY <1>3, <2>1 DEF d
    <3> DEFINE f == Flush
    <3>3. f \in Messages
      BY <1>3
    <3> HIDE DEF f
    <3>4. <<d, f>> = Append(<<d>>, f)
      BY <3>2, <3>3
    <3>5. \A u \in Seq(Messages), v \in Seq(Messages), e \in Messages :
            u \o Append(v, e) = Append(u \o v, e)
      OBVIOUS
    <3>6. <<q>> \o <<d>> = <<q, d>>
      BY <1>3, <2>1, Concatenations DEF d
    <3>7. <<q, d, f>> = Append(<<q, d>>, f)
      BY <2>1, <3>3, <3>2
    <3>8. <<q>> \o <<d, f>> = <<q, d, f>>
      BY <3>2, <3>3, <3>4, <3>5, <3>6, <3>7
    <3> QED BY <3>1, <3>8 DEF f
  <2> HIDE DEF q, d
  <2>3. channel' = Emitted(channel, <<q, d, Flush>>, taken)
    BY <1>5, <2>2, Emission DEF d
  <2>4. x \in Packets /\ x.m.msg = "input_mode" /\ x.m.mode = m
    BY <1>3, <2>1, PacketTyped DEF Packet
  <2>5. t \in Readers /\ t.mode = m /\ (Guards => t.e.ui_stack = r.e.ui_stack)
    <3> HIDE DEF x
    <3> QED BY <2>4, ReadingTyped, ReadsMode DEF Guards
  <2> HIDE DEF t
  <2>6. Reading(boundary, t, Packet(d, taken)) = t
    BY <1>3, <2>5, ReadsPlain DEF d
  <2>7. d \in Messages /\ d.msg # "flush"
    BY <1>3 DEF d
  <2>8. Leads(boundary, Holds, sent + 1, Append(channel, x), t, FALSE)
    BY <1>2, <1>3, <2>1, EmitOther DEF t
  <2>9. Leads(boundary, Holds, sent + 1, Append(Append(channel, x), Packet(d, taken)), t, FALSE)
    <3> HIDE DEF x
    <3>1. Leads(boundary, Holds, sent + 1, Append(Append(channel, x), Packet(d, taken)),
                Reading(boundary, t, Packet(d, taken)), FALSE)
      BY <1>3, <2>5, <2>7, <2>8, EmitOther
    <3> QED BY <2>6, <3>1
  <2>10. Leads(boundary, Holds, sent + 1,
               Append(Append(Append(channel, x), Packet(d, taken)), Packet(Flush, taken)), t, TRUE)
    BY <1>3, <2>5, <2>9, EmitFlush
  <2>11. channel' = Append(Append(Append(channel, x), Packet(d, taken)), Packet(Flush, taken))
    BY <1>3, <2>1, <2>3, <2>7, EmitsThree
  <2>12. channel' # <<>>
    BY <1>3, <2>1, <2>3, <2>7, BatchIsSome
  <2> QED BY <1>1, <1>2, <1>3, <1>5, <2>5, <2>10, <2>11, <2>12, WaitsThere
<1>6. ASSUME NEW a \in Messages, a.msg # "flush", Emits(<<a, Flush>>, taken),
             mode' = mode, ui' \in Seq(BOOLEAN), line' \in BOOLEAN, line' => ui' = <<>>,
             NEW s, s = Reading(boundary, r, Packet(a, taken)), s.mode = r.mode,
             Guards => s.e.ui_stack = ui'
      PROVE  BInv'
  <2>1. channel' = Emitted(channel, <<a, Flush>>, taken)
    BY <1>6, Emission
  <2>2. s \in Readers /\ Leads(boundary, Holds, sent + 1, channel', s, TRUE)
    BY <1>2, <1>3, <1>6, <2>1, EmitPair
  <2>3. channel' # <<>>
    BY <1>3, <1>6, <2>1, BatchIsSome
  <2>4. mode' = 0 /\ mode' \in Modes /\ (s.mode = mode' \/ (s.mode = NoMode /\ mode' = 0))
    BY <1>2, <1>3, <1>6
  <2> QED BY <1>1, <1>6, <2>2, <2>3, <2>4, WaitsThere
<1>7. CASE /\ ui = << >>
           /\ line' = TRUE /\ Emits(<<Plain("init_input"), Flush>>, taken)
           /\ UNCHANGED <<mode, ui>>
  <2> DEFINE a == Plain("init_input")
             s == Reading(boundary, r, Packet(a, taken))
  <2>1. a \in Messages /\ a.msg # "flush"
    BY MessageKinds DEF Plain
  <2>2. s.mode = r.mode /\ (Guards => s.e.ui_stack = ui')
    BY <1>2, <1>3, <1>7, ReadsPlain DEF Guards
  <2> HIDE DEF s
  <2>3. Emits(<<a, Flush>>, taken)
    BY <1>7
  <2> HIDE DEF a
  <2> QED BY <1>3, <1>6, <1>7, <2>1, <2>2, <2>3 DEF s
<1>8. CASE /\ Len(ui) < MaxDepth
           /\ ui' = Append(ui, TRUE) /\ Emits(<<Push(TRUE), Flush>>, taken)
           /\ UNCHANGED <<mode, line>>
  <2> DEFINE a == Push(TRUE)
             s == Reading(boundary, r, Packet(a, taken))
  <2>1. a \in Messages /\ a.msg # "flush"
    BY MessageKinds DEF Push
  <2>2. s.mode = r.mode /\ (Guards => s.e.ui_stack = ui')
    <3>1. s.mode = r.mode /\ (Guards => s.e.ui_stack = Append(r.e.ui_stack, TRUE))
      BY <1>3, ReadsPush DEF Guards
    <3> HIDE DEF s
    <3> QED BY <1>2, <1>8, <3>1
  <2> HIDE DEF s
  <2>3. Emits(<<a, Flush>>, taken)
    BY <1>8
  <2> HIDE DEF a
  <2>4. ui' \in Seq(BOOLEAN)
    <3>1. \A u \in Seq(BOOLEAN) : Append(u, TRUE) \in Seq(BOOLEAN)
      OBVIOUS
    <3> QED BY <1>3, <1>8, <3>1
  <2>5. mode' = mode /\ line' \in BOOLEAN /\ ~line'
    BY <1>2, <1>3, <1>8
  <2> QED BY <1>6, <2>1, <2>2, <2>3, <2>4, <2>5 DEF s
<1>9. CASE /\ ui # << >>
           /\ Emits(<<Plain("delta"), Flush>>, taken)
           /\ UNCHANGED <<mode, ui, line>>
  <2> DEFINE a == Plain("delta")
             s == Reading(boundary, r, Packet(a, taken))
  <2>1. s = r
    BY <1>3, ReadsPlain
  <2>2. s.mode = r.mode /\ (Guards => s.e.ui_stack = ui')
    BY <1>2, <1>9, <2>1
  <2> HIDE DEF s
  <2>3. Emits(<<a, Flush>>, taken) /\ a \in Messages /\ a.msg # "flush"
    BY <1>3, <1>9
  <2> HIDE DEF a
  <2>4. mode' = mode /\ ui' \in Seq(BOOLEAN) /\ line' \in BOOLEAN /\ ~line'
    BY <1>2, <1>3, <1>9
  <2> QED BY <1>6, <2>2, <2>3, <2>4 DEF s
<1> QED BY <1>5, <1>7, <1>8, <1>9 DEF Waits

LEMMA AnswersProbeBInv == ASSUME BInv, AnswersProbe PROVE BInv'
<1>1. /\ inbox # <<>> /\ Head(inbox) = "probe" /\ inbox' = Tail(inbox)
      /\ UNCHANGED <<clientVars, phase, mode, ui, line, taken>>
  BY DEF AnswersProbe, Reads, gameVars
<1>2. PICK r \in Readers : MayMove(r)
  BY <1>1, GameMay DEF Rests
<1>3. /\ inbox' \in Seq(Inputs)
      /\ Tight => /\ inbox' = <<>> /\ channel = <<>> /\ mode # 0
                  /\ phase = "waiting" /\ ui = <<>> /\ ~line
  BY <1>1, Waiting
<1>4. Types
  BY DEF BInv
<1>5. Counted(taken', inbox', sent + 1)
  <2>1. Counted(taken + (IF Head(inbox) = "probe" THEN 0 ELSE 1), Tail(inbox), sent + 1)
    BY <1>1, <1>4, CountedTail DEF BInv, Types
  <2> QED BY <1>1, <1>4, <2>1 DEF Types
<1>6. Tight => taken = sent + 1 /\ Rests'
  BY <1>1, <1>3, <1>5, CountedEmpty DEF Rests
<1>7. /\ Leads(boundary, Holds, sent + 1, channel, r, FALSE)
      /\ taken \in Nat /\ channel \in Seq(Packets) /\ ui \in Seq(BOOLEAN) /\ mode \in Modes
      /\ boundary \in Guarded => taken = sent + 1
  BY <1>2, <1>4, <1>6 DEF MayMove, Types, Tight, Guarded
<1> DEFINE d == Plain("delta")
           l == UiStack(ui)
           q == Mode(mode)
           s == Reading(boundary, r, Packet(l, taken))
           x == Packet(q, taken)
           u == Reading(boundary, s, x)
<1>8. /\ d \in Messages /\ d.msg # "flush" /\ l \in Messages /\ l.msg # "flush"
      /\ q \in Messages /\ q.msg = "input_mode" /\ q.mode = mode
  BY <1>7, MessageKinds DEF Plain, UiStack, Mode
<1>9. Reading(boundary, r, Packet(d, taken)) = r
  BY <1>7, ReadsPlain
<1>10. Guards => s.e.ui_stack = ui
  BY <1>7, ReadsStack DEF Guards
<1>11. channel' = Emitted(channel, <<d, l, q, Flush>>, taken)
  BY Emission DEF AnswersProbe
<1> HIDE DEF d, l, q
<1>12. x \in Packets /\ x.m.msg = "input_mode" /\ x.m.mode = mode
  BY <1>7, <1>8, PacketTyped DEF Packet
<1>13. Leads(boundary, Holds, sent + 1, Append(channel, Packet(d, taken)), r, FALSE)
  <2>1. Leads(boundary, Holds, sent + 1, Append(channel, Packet(d, taken)),
              Reading(boundary, r, Packet(d, taken)), FALSE)
    BY <1>7, <1>8, EmitOther
  <2> QED BY <1>9, <2>1
<1>14. /\ s \in Readers
       /\ Leads(boundary, Holds, sent + 1,
                Append(Append(channel, Packet(d, taken)), Packet(l, taken)), s, FALSE)
  BY <1>7, <1>8, <1>13, EmitOther
<1> HIDE DEF s
<1>15. u \in Readers /\ u.mode = mode /\ (Guards => u.e.ui_stack = s.e.ui_stack)
  <2> HIDE DEF x
  <2> QED BY <1>12, <1>14, ReadingTyped, ReadsMode DEF Guards
<1> DEFINE z == Append(Append(Append(channel, Packet(d, taken)), Packet(l, taken)), x)
<1>16. Leads(boundary, Holds, sent + 1, z, u, FALSE)
  BY <1>7, <1>8, <1>14, EmitOther
<1> HIDE DEF u
<1>17. Leads(boundary, Holds, sent + 1, Append(z, Packet(Flush, taken)), u, Rests')
  <2> HIDE DEF z
  <2>1. boundary = "quiescence" \/ Rests'
    BY <1>6 DEF Tight
  <2> QED BY <1>7, <1>15, <1>16, <2>1, EmitFlush
<1>18. channel' = Append(z, Packet(Flush, taken))
  <2>1. Flush \in Messages
    BY MessageKinds
  <2> DEFINE f == Flush
  <2> HIDE DEF f
  <2>2. <<d, l, q>> \in Seq(Messages) /\ f \in Messages
    BY <1>8, <2>1 DEF f
  <2>3. <<d, l, q, f>> = Append(<<d, l, q>>, f)
    BY <2>2
  <2>4. Emitted(channel, <<d, l, q>>, taken) = z
    BY <1>7, <1>8, EmitsThree
  <2>5. Emitted(channel, Append(<<d, l, q>>, f), taken) = Append(z, Packet(f, taken))
    <3> HIDE DEF z
    <3> QED BY <1>7, <2>2, <2>4, EmitsMore
  <2> QED BY <1>11, <2>3, <2>5 DEF f
<1>19. Leads(boundary, Holds, sent + 1, channel', u, Rests')
  BY <1>17, <1>18
<1>20. PICK t \in Readers : /\ t.mode = mode /\ (Guards => t.e.ui_stack = ui)
                            /\ Leads(boundary, Holds, sent + 1, channel', t, Rests')
  BY <1>10, <1>15, <1>19
<1>21. boundary' = boundary
  BY <1>1 DEF clientVars
<1>22. Agrees(t)' /\ GameShape'
  BY <1>1, <1>3, <1>20, <1>21 DEF Agrees, GameShape, Guards, Tight, BInv
<1>23. /\ phase' \in {"waiting", "running", "generating", "over"} /\ mode' \in Modes
       /\ ui' \in Seq(BOOLEAN) /\ line' \in BOOLEAN /\ taken' \in Nat
       /\ Tight /\ client = "probing" /\ channel' = <<>> => mode' # 0
  BY <1>1, <1>3, <1>4 DEF Types
<1> QED BY <1>1, <1>2, <1>3, <1>5, <1>20, <1>22, <1>23, GameKeeps

LEMMA GameBInv == ASSUME BInv, Game PROVE BInv'
BY TakesKeyBInv, RendersBInv, GeneratesBInv, GeneratedBInv, WaitsBInv, ExitsBInv, AnswersProbeBInv
   DEF Game
-------------------------------------------------------------------------------
(* The client.                                                                *)

\* Without evidence and without a flush to check, reading is the same.
LEMMA LeadsLoose ==
  ASSUME NEW b, NEW h, NEW n, NEW ch, NEW r, NEW rests, NEW m, NEW other,
         b \notin Guarded, Leads(b, h, n, ch, r, rests)
  PROVE  Leads("quiescence", h, m, ch, r, other)
<1>1. "quiescence" \notin Guarded
  BY DEF Guarded
<1>2. \A t, p : Reading(b, t, p) = Reading("quiescence", t, p)
  BY <1>1 DEF Reading
<1> QED BY <1>1, <1>2 DEF Leads

\* What is known once everything sent is read.
LEMMA AllRead ==
  ASSUME BInv, channel = <<>>
  PROVE  /\ lastMode = mode \/ (lastMode = NoMode /\ mode = 0)
         /\ Guards => evidence.ui_stack = ui
         /\ Tight /\ phase \in {"running", "generating"} => Busy(boundary, Holds)
<1>1. PICK r \in Readers : Leads(boundary, Holds, sent + 1, channel, r, Rests) /\ Agrees(r)
  BY DEF BInv, Replayed
<1>2. Holds \in Readers
  BY DEF BInv, Types, Holds, Readers
<1>3. r = Holds
  BY <1>1, <1>2, LeadsEmpty
<1> QED BY <1>1, <1>3 DEF Agrees, Holds

LEMMA SendKeyBInv == ASSUME BInv, NEW kind \in DOMAIN Boundary, SendKey(kind) PROVE BInv'
<1>1. /\ client = "deciding" /\ sent' = sent + 1 /\ inbox' = Append(inbox, kind)
      /\ boundary' = Boundary[kind] /\ evidence' = NoEvidence
      /\ client' \in {"probing", "receiving"}
      /\ UNCHANGED <<lastMode, menu, phase, mode, ui, line, turns, taken, channel>>
      /\ Legal(kind)
  BY DEF SendKey, gameVars
<1>2. Types /\ kind \in Inputs /\ kind # "probe"
  BY KeysAreInputs DEF BInv
<1>3. Counted(taken', inbox', sent' + 1) /\ inbox' \in Seq(Inputs) /\ sent' \in Nat
  <2>1. Counted(taken, Append(inbox, kind), (sent + 1) + (IF kind = "probe" THEN 0 ELSE 1))
    BY <1>2, CountedAppend DEF BInv, Types
  <2>2. sent \in Nat /\ inbox \in Seq(Inputs)
    BY <1>2 DEF Types
  <2> QED BY <1>1, <1>2, <2>1, <2>2
<1>4. boundary' \in Boundaries /\ NoEvidence \in Evidences
  BY <1>1 DEF Boundary, Boundaries, Guarded, NoEvidence, Evidences
<1>5. Types'
  BY <1>1, <1>2, <1>3, <1>4 DEF Types, Clients, Exchanging
<1>6. Ends' /\ OfItsKey'
  BY <1>1 DEF Ends, OfItsKey, NoEvidence
<1> DEFINE h == [mode |-> lastMode, e |-> NoEvidence]
<1>7. Holds' = h /\ h \in Readers
  BY <1>1, <1>2, <1>4 DEF Holds, Readers, Types
<1>8. \A b, n, rests : Leads(b, h, n, <<>>, h, rests)
  <2> HIDE DEF h
  <2> QED BY <1>7, LeadsEmpty
<1>9. CASE kind = "plain"
  <2>1. boundary' = "quiescence" /\ ~Guards' /\ ~Tight'
    BY <1>1, <1>9 DEF Boundary, Guards, Tight, Guarded
  <2>2. Replayed'
    <3>1. CASE Guards
      <4>1. channel = <<>>
        BY <1>1, <3>1 DEF BInv, Ends
      <4>2. lastMode = mode \/ (lastMode = NoMode /\ mode = 0)
        BY <4>1, AllRead
      <4>3. Leads(boundary', Holds', sent' + 1, channel', h, Rests')
        BY <1>1, <1>7, <1>8, <4>1
      <4>4. PICK s \in Readers : /\ Leads(boundary', Holds', sent' + 1, channel', s, Rests')
                                 /\ s.mode = lastMode
        BY <1>7, <4>3
      <4>5. Agrees(s)'
        BY <1>1, <2>1, <4>2, <4>4 DEF Agrees
      <4> QED BY <4>4, <4>5 DEF Replayed
    <3>2. CASE ~Guards
      <4>1. PICK r \in Readers : /\ Leads(boundary, Holds, sent + 1, channel, r, Rests)
                                 /\ Agrees(r)
        BY DEF BInv, Replayed
      <4>2. Holds' = Holds
        BY <1>1, <3>2 DEF BInv, OfItsKey, Holds
      <4>3. Leads(boundary', Holds', sent' + 1, channel', r, Rests')
        BY <1>1, <2>1, <3>2, <4>1, <4>2, LeadsLoose DEF Guards
      <4>4. Agrees(r)'
        BY <1>1, <2>1, <4>1 DEF Agrees
      <4> QED BY <4>3, <4>4 DEF Replayed
    <3> QED BY <3>1, <3>2
  <2>3. GameShape' /\ Asked'
    BY <1>1, <2>1 DEF BInv, GameShape, Asked
  <2> QED BY <1>3, <1>5, <1>6, <2>2, <2>3 DEF BInv
<1>10. CASE kind # "plain"
  <2>1. lastMode \in {1, 5}
    BY <1>1, <1>10 DEF Legal, Boundary
  <2>2. Rests /\ channel = <<>>
    BY <1>1, <2>1 DEF BInv, Ends, NoMode
  <2>3. lastMode = mode
    BY <2>1, <2>2, AllRead DEF NoMode
  <2>4. mode # 0 /\ phase = "waiting" /\ ui = <<>> /\ ~line
    BY <2>1, <2>3 DEF BInv, GameShape
  <2>5. GameShape'
    BY <1>1, <2>4 DEF GameShape
  <2>6. Len(inbox') = 1
    <3>1. \A x : Len(Append(<<>>, x)) = 1
      OBVIOUS
    <3> QED BY <1>1, <2>2, <3>1 DEF Rests
  <2>7. Asked'
    BY <1>1, <2>2, <2>4, <2>6 DEF Asked
  <2>8. Replayed'
    <3>1. Leads(boundary', Holds', sent' + 1, channel', h, Rests')
      BY <1>1, <1>7, <1>8, <2>2
    <3>2. h.e.ui_stack = <<>>
      BY DEF NoEvidence
    <3>3. PICK s \in Readers : /\ Leads(boundary', Holds', sent' + 1, channel', s, Rests')
                               /\ s.mode = lastMode /\ s.e.ui_stack = <<>>
      BY <1>7, <3>1, <3>2
    <3>4. Agrees(s)'
      BY <1>1, <2>3, <2>4, <3>3 DEF Agrees
    <3> QED BY <3>3, <3>4 DEF Replayed
  <2> QED BY <1>3, <1>5, <1>6, <2>5, <2>7, <2>8 DEF BInv
<1> QED BY <1>9, <1>10

\* A step of the client that reads and sends no key.
LEMMA ClientKeeps ==
  ASSUME BInv, UNCHANGED <<boundary, evidence, lastMode, sent, phase, mode, ui, line, taken, channel>>,
         client' \in Clients, Asked', Ends', inbox' \in Seq(Inputs),
         Counted(taken, inbox', sent + 1), channel = <<>> \/ inbox' = inbox,
         boundary = "level-transition" /\ client' \in {"settling", "deciding"} => evidence.of # 0
  PROVE  BInv'
<1>1. Types' /\ GameShape'
  BY DEF BInv, Types, GameShape, Guards
<1>2. OfItsKey'
  BY DEF BInv, OfItsKey, Guards
<1>3. Replayed'
  <2>1. PICK r \in Readers : Leads(boundary, Holds, sent + 1, channel, r, Rests) /\ Agrees(r)
    BY DEF BInv, Replayed
  <2>2. Leads(boundary, Holds, sent + 1, channel, r, Rests')
    <3>1. Rests => Rests' \/ channel = <<>> \/ boundary = "quiescence"
      BY DEF Rests
    <3> QED BY <2>1, <3>1, LeadsWeaken
  <2>3. Holds' = Holds /\ Agrees(r)'
    BY <2>1 DEF Holds, Agrees, Guards, Tight
  <2> QED BY <2>2, <2>3 DEF Replayed
<1> QED BY <1>1, <1>2, <1>3 DEF BInv

LEMMA AnsweredBInv == ASSUME BInv, Answered PROVE BInv'
<1>1. /\ client' = "receiving" /\ channel # <<>>
      /\ UNCHANGED <<boundary, evidence, lastMode, sent, phase, mode, ui, line, taken, inbox, channel>>
  BY DEF Answered, gameVars
<1>2. Asked' /\ Ends' /\ client' \in Clients
  BY <1>1 DEF BInv, Asked, Ends, Clients, Exchanging, Tight
<1> QED BY <1>1, <1>2, ClientKeeps DEF BInv, Types

LEMMA RequestFullStateBInv == ASSUME BInv, Prompt, RequestFullState PROVE BInv'
<1>1. /\ client = "probing" /\ client' = "receiving" /\ channel = <<>>
      /\ (GameWaits \/ phase = "generating")
      /\ inbox' = Append(inbox, "probe")
      /\ UNCHANGED <<boundary, evidence, lastMode, sent, phase, mode, ui, line, taken, channel>>
  BY DEF RequestFullState, Quiet, gameVars
<1>2. Types /\ "probe" \in Inputs
  BY DEF BInv, Inputs
<1>3. Counted(taken, inbox', sent + 1) /\ inbox' \in Seq(Inputs)
  <2>1. Counted(taken, Append(inbox, "probe"), (sent + 1) + (IF "probe" = "probe" THEN 0 ELSE 1))
    BY <1>2, CountedAppend DEF BInv, Types
  <2>2. sent \in Nat /\ inbox \in Seq(Inputs)
    BY <1>2 DEF Types
  <2> QED BY <1>1, <1>2, <2>1, <2>2
<1>4. ASSUME Tight PROVE Len(inbox') = 1 /\ mode # 0 /\ evidence = NoEvidence
  <2>1. mode # 0 /\ evidence = NoEvidence
    BY <1>1, <1>4 DEF BInv, Asked
  <2>2. inbox = <<>>
    BY <1>1, <2>1 DEF BInv, GameShape, GameWaits
  <2>3. \A x : Len(Append(<<>>, x)) = 1
    OBVIOUS
  <2> QED BY <1>1, <2>1, <2>2, <2>3
<1>5. Asked' /\ Ends' /\ client' \in Clients
  BY <1>1, <1>4 DEF Asked, Ends, Clients, Exchanging, Tight
<1> QED BY <1>1, <1>3, <1>5, ClientKeeps

LEMMA SettleBInv == ASSUME BInv, Prompt, Settle PROVE BInv'
<1>1. /\ client = "settling"
      /\ UNCHANGED <<boundary, evidence, lastMode, sent, phase, mode, ui, line, taken, inbox, channel>>
  BY DEF Settle, gameVars
<1>2. Asked'
  BY <1>1 DEF BInv, Asked, Tight, Settle
<1>3. CASE client' = "receiving"
  <2>1. Ends' /\ client' \in Clients
    BY <1>3 DEF Ends, Clients, Exchanging
  <2> QED BY <1>1, <1>2, <1>3, <2>1, ClientKeeps DEF BInv, Types
<1>4. CASE Quiet /\ client' = "deciding"
  <2>1. channel = <<>> /\ (GameWaits \/ phase = "generating")
    BY <1>4 DEF Quiet
  <2>2. Guards => Rests
    BY <1>1 DEF BInv, Ends
  <2>3. lastMode \notin {0, NoMode} => Rests
    BY <2>1, AllRead DEF BInv, GameShape, GameWaits, Rests
  <2>4. Ends' /\ client' \in Clients
    BY <1>1, <1>4, <2>1, <2>2, <2>3 DEF Ends, Clients, Guards, Rests
  <2>5. boundary = "level-transition" => evidence.of # 0
    BY <1>1 DEF BInv, OfItsKey
  <2> QED BY <1>1, <1>2, <2>4, <2>5, ClientKeeps DEF BInv, Types
<1> QED BY <1>3, <1>4 DEF Settle

LEMMA TimesOutBInv == ASSUME BInv, Prompt, TimesOut PROVE BInv'
<1>1. /\ client' = "failed" /\ channel = <<>> /\ GameWaits
      /\ UNCHANGED <<boundary, evidence, lastMode, sent, phase, mode, ui, line, taken, inbox, channel>>
  BY DEF TimesOut, gameVars
<1>2. Tight => inbox = <<>>
  BY <1>1 DEF BInv, Asked, GameShape, GameWaits
<1>3. Asked' /\ Ends' /\ client' \in Clients
  BY <1>1, <1>2 DEF Asked, Ends, Clients, Tight
<1> QED BY <1>1, <1>3, ClientKeeps DEF BInv, Types

\* What a message makes of evidence that is the exchange's own.
LEMMA ApplyOwn ==
  ASSUME NEW e \in Evidences, NEW p, NEW n \in Nat, e.of \in {0, n + 1},
         e.of = 0 => e = NoEvidence
  PROVE  LET a == Apply(e, p, n + 1) IN a.of \in {0, n + 1} /\ (a.of = 0 => a = NoEvidence)
<1>1. n + 1 # 0
  OBVIOUS
<1> DEFINE k == n + 1
<1> HIDE DEF k
<1>2. Apply(e, p, k).of \in {e.of, k}
  BY DEF Apply, Evidences
<1>3. Apply(e, p, k).of # k => (e = NoEvidence => Apply(e, p, k) = NoEvidence)
  <2> SUFFICES ASSUME Apply(e, p, k).of # k, e = NoEvidence PROVE Apply(e, p, k) = NoEvidence
    OBVIOUS
  <2>1. p.msg \notin {"input_mode", "ui-push", "ui-stack", "init_input"}
    BY DEF Apply, Evidences
  <2>2. e.ui_stack = <<>> /\ e.line_input = FALSE
    BY DEF NoEvidence
  <2>3. [e EXCEPT !.ui_stack = <<>>] = e /\ [e EXCEPT !.line_input = FALSE] = e
    BY <2>2 DEF NoEvidence
  <2>4. CASE p.msg = "ui-pop"
    BY <2>2, <2>3, <2>4 DEF Apply
  <2>5. CASE p.msg = "close_all_menus"
    BY <2>3, <2>5 DEF Apply
  <2>6. CASE p.msg = "close_input"
    BY <2>3, <2>6 DEF Apply
  <2>7. CASE p.msg \notin {"ui-pop", "close_all_menus", "close_input"}
    BY <2>1, <2>7 DEF Apply
  <2> QED BY <2>4, <2>5, <2>6, <2>7
<1> QED BY <1>1, <1>2, <1>3 DEF k

LEMMA ReceiveBInv == ASSUME BInv, Receive PROVE BInv'
<1> DEFINE pk == Head(channel)
<1>1. /\ client = "receiving" /\ channel # <<>> /\ channel' = Tail(channel)
      /\ lastMode' = (IF pk.m.msg = "input_mode" THEN pk.m.mode ELSE lastMode)
      /\ evidence' = (IF boundary \in Guarded THEN Apply(evidence, pk.m, pk.of) ELSE evidence)
      /\ client' = (CASE pk.m.msg = "flush" -> AfterFlush(evidence)
                      [] pk.m.msg = "exit" /\ boundary \in Guarded -> "ended"
                      [] OTHER -> "receiving")
      /\ UNCHANGED <<boundary, sent, phase, mode, ui, line, taken, inbox>>
  BY DEF Receive, gameVars
<1>2. Types
  BY DEF BInv
<1>3. PICK r \in Readers : Leads(boundary, Holds, sent + 1, channel, r, Rests) /\ Agrees(r)
  BY DEF BInv, Replayed
<1>4. Holds \in Readers
  BY <1>2 DEF Types, Holds, Readers
<1>5. Holds' = Reading(boundary, Holds, pk)
  BY <1>1 DEF Holds, Reading
<1>6. /\ pk \in Packets
      /\ Leads(boundary, Holds', sent + 1, channel', r, Rests)
      /\ boundary \in Guarded => pk.of = sent + 1
      /\ boundary # "quiescence" /\ pk.m.msg = "flush" =>
           Busy(boundary, Holds') \/ (Rests /\ channel' = <<>>)
  <2> HIDE DEF pk
  <2>1. /\ pk \in Packets
        /\ Leads(boundary, Reading(boundary, Holds, pk), sent + 1, Tail(channel), r, Rests)
        /\ boundary \in Guarded => pk.of = sent + 1
        /\ boundary # "quiescence" /\ pk.m.msg = "flush" =>
             Busy(boundary, Reading(boundary, Holds, pk)) \/ (Rests /\ Tail(channel) = <<>>)
    BY <1>1, <1>3, <1>4, LeadsTail DEF pk
  <2> QED BY <1>1, <1>5, <2>1
<1> HIDE DEF pk
<1>7. Replayed'
  <2>1. Rests' = Rests /\ Agrees(r)'
    BY <1>1, <1>3 DEF Rests, Agrees, Guards, Tight
  <2>2. Leads(boundary', Holds', sent' + 1, channel', r, Rests')
    BY <1>1, <1>6, <2>1
  <2> QED BY <2>1, <2>2 DEF Replayed
<1>8. pk.m.msg = "flush" => Holds' = Holds
  <2>1. pk.m.msg = "flush" => Apply(evidence, pk.m, pk.of) = evidence
    BY DEF Apply
  <2> QED BY <1>1, <2>1 DEF Holds
<1>9. client' \in {"settling", "deciding"} => pk.m.msg = "flush" /\ client' = AfterFlush(evidence)
  BY <1>1
<1>10. Types'
  <2>1. Holds' \in Readers
    BY <1>4, <1>5, <1>6, ReadingTyped
  <2>2. lastMode' \in Modes \union {NoMode} /\ evidence' \in Evidences
    BY <2>1 DEF Holds, Readers
  <2>3. client' \in Clients
    BY <1>1 DEF AfterFlush, Clients, Exchanging
  <2>4. channel' \in Seq(Packets)
    BY <1>6 DEF Leads
  <2> QED BY <1>1, <1>2, <2>2, <2>3, <2>4 DEF Types
<1>11. GameShape'
  BY <1>1 DEF BInv, GameShape, Guards
<1>12. Asked'
  <2>1. client' # "probing"
    BY <1>1 DEF AfterFlush
  <2> QED BY <1>1, <2>1 DEF BInv, Asked, Tight
<1>13. ASSUME Guards, client' \in {"settling", "deciding"}
       PROVE  Rests /\ channel' = <<>>
  <2>1. pk.m.msg = "flush" /\ AfterFlush(evidence) # "receiving" /\ Holds' = Holds
    BY <1>8, <1>9, <1>13
  <2>2. ~Busy(boundary, Holds)
    <3> SUFFICES ASSUME Busy(boundary, Holds) PROVE FALSE
      OBVIOUS
    <3>1. /\ evidence.input_mode = 0 /\ evidence.saw_busy /\ ~evidence.line_input
          /\ evidence.ui_stack \in {<<>>, <<FALSE>>}
      BY <1>13 DEF Busy, Guards, Holds
    <3>2. Last(<<FALSE>>) = FALSE
      BY DEF Last
    <3>3. NeedsEvidence(evidence) /\ ~ExplicitInput(evidence) /\ ~BlockingUi(evidence)
      <4>1. NeedsEvidence(evidence)
        BY <1>13, <3>1 DEF Guards, Guarded, NeedsEvidence
      <4>2. ~ExplicitInput(evidence)
        BY <3>1 DEF ExplicitInput, _LEVEL_INPUT_MODES
      <4>3. CASE evidence.ui_stack = <<>>
        BY <3>1, <4>1, <4>2, <4>3 DEF BlockingUi
      <4>4. CASE evidence.ui_stack = <<FALSE>>
        <5>1. evidence.ui_stack # <<>> /\ ~Last(evidence.ui_stack)
          BY <3>2, <4>4
        <5> QED BY <4>1, <4>2, <5>1 DEF BlockingUi
      <4> QED BY <3>1, <4>3, <4>4
    <3> QED BY <2>1, <3>3 DEF AfterFlush
  <2>3. boundary # "quiescence"
    BY <1>13 DEF Guards, Guarded
  <2> QED BY <1>6, <2>1, <2>2, <2>3
<1>14. ASSUME ~Guards, client' = "deciding"
       PROVE  Rests /\ channel' = <<>>
  <2>1. pk.m.msg = "flush" /\ AfterFlush(evidence) = "deciding" /\ Holds' = Holds
    BY <1>8, <1>9, <1>14
  <2>2. boundary = "input-ready-or-quiescence" /\ lastMode = 1
    BY <1>14, <2>1 DEF AfterFlush, Guards, Guarded, NeedsEvidence, InputReady
  <2>3. ~Busy(boundary, Holds) /\ boundary # "quiescence"
    BY <2>2 DEF Busy, Holds
  <2> QED BY <1>6, <2>1, <2>3
<1>15. Ends'
  BY <1>1, <1>13, <1>14 DEF Ends, Guards, Rests
<1>16. OfItsKey'
  <2>1. sent \in Nat /\ evidence \in Evidences /\ OfItsKey
    BY <1>2 DEF BInv, Types
  <2>2. evidence'.of \in {0, sent + 1} /\ (evidence'.of = 0 => evidence' = NoEvidence)
    <3>1. CASE boundary \in Guarded
      <4>1. evidence' = Apply(evidence, pk.m, sent + 1)
        BY <1>1, <1>6, <3>1
      <4> QED BY <2>1, <4>1, ApplyOwn DEF OfItsKey
    <3>2. CASE boundary \notin Guarded
      BY <1>1, <2>1, <3>2 DEF OfItsKey
    <3> QED BY <3>1, <3>2
  <2>3. ~Guards' => evidence' = NoEvidence
    BY <1>1, <2>1 DEF OfItsKey, Guards
  <2>4. ASSUME boundary' = "level-transition", client' \in {"settling", "deciding"}
        PROVE  evidence'.of # 0
    <3>1. pk.m.msg = "flush" /\ AfterFlush(evidence) # "receiving" /\ evidence' = evidence
      BY <1>8, <1>9, <2>4 DEF Holds
    <3>2. boundary = "level-transition"
      BY <1>1, <2>4
    <3>3. ExplicitInput(evidence) \/ BlockingUi(evidence)
      BY <3>1, <3>2 DEF AfterFlush, NeedsEvidence
    <3>4. evidence # NoEvidence
      BY <3>3 DEF NoEvidence, ExplicitInput, BlockingUi, NoMode, _LEVEL_INPUT_MODES
    <3> QED BY <2>1, <3>1, <3>4 DEF OfItsKey
  <2> QED BY <1>1, <2>2, <2>3, <2>4 DEF OfItsKey
<1> QED BY <1>1, <1>7, <1>10, <1>11, <1>12, <1>15, <1>16 DEF BInv

LEMMA NextBInv == ASSUME BInv, Prompt, [Next]_vars PROVE BInv'
<1>1. ASSUME UNCHANGED vars PROVE BInv'
  <2>1. /\ UNCHANGED <<boundary, evidence, lastMode, sent, phase, mode, ui, line, taken, channel>>
        /\ client' = client /\ inbox' = inbox
    BY <1>1 DEF vars, clientVars, gameVars
  <2>2. Asked' /\ Ends'
    BY <2>1 DEF BInv, Asked, Ends, Tight, Guards, Rests
  <2>3. client' \in Clients /\ inbox' \in Seq(Inputs) /\ Counted(taken, inbox', sent + 1)
        /\ (boundary = "level-transition" /\ client' \in {"settling", "deciding"} => evidence.of # 0)
    BY <2>1 DEF BInv, Types, OfItsKey
  <2> QED BY <2>1, <2>2, <2>3, ClientKeeps
<1> QED BY <1>1, GameBInv, SendKeyBInv, AnsweredBInv, RequestFullStateBInv, ReceiveBInv, SettleBInv,
           TimesOutBInv DEF Next, Transport

LEMMA InitBInv == ASSUME Init PROVE BInv
<1> DEFINE a == Packet(Push(TRUE), 0)
           z == Packet(Flush, 0)
           s == Reading("quiescence", Holds, a)
<1>1. /\ client = "receiving" /\ boundary = "quiescence" /\ evidence = NoEvidence
      /\ lastMode = NoMode /\ sent = 0 /\ phase = "waiting" /\ mode = 0 /\ ui = <<TRUE>>
      /\ line = FALSE /\ taken = 0 /\ inbox = <<"plain">> /\ channel = <<a, z>>
  BY DEF Init, Packet, Flush
<1>2. a \in Packets /\ z \in Packets /\ Push(TRUE) \in Messages /\ Push(TRUE).msg # "flush"
  BY MessageKinds, PacketTyped DEF Push
<1>3. NoEvidence \in Evidences
  BY DEF NoEvidence, Evidences
<1>4. Holds \in Readers
  BY <1>1, <1>3 DEF Holds, Readers
<1>5. ~Guards /\ ~Tight
  BY <1>1 DEF Guards, Guarded, Tight
<1>6. s \in Readers /\ s.mode = lastMode
  <2>1. a.m.msg # "input_mode"
    BY DEF Packet, Push
  <2> HIDE DEF a
  <2>2. s.mode = lastMode
    BY <2>1 DEF Reading, Holds
  <2>3. s \in Readers
    BY <1>2, <1>4, ReadingTyped
  <2> QED BY <2>2, <2>3
<1>7. Leads("quiescence", Holds, 1, <<a, z>>, s, Rests)
  <2>1. Leads("quiescence", Holds, 1, <<>>, Holds, FALSE)
    BY <1>4, LeadsEmpty
  <2>2. "quiescence" \notin Guarded
    BY DEF Guarded
  <2>3. Leads("quiescence", Holds, 1, Append(<<>>, a), s, FALSE)
    BY <1>2, <1>4, <2>1, <2>2, EmitOther
  <2> HIDE DEF s
  <2>4. Leads("quiescence", Holds, 1, Append(Append(<<>>, a), z), s, Rests)
    <3> HIDE DEF a
    <3> QED BY <1>6, <2>2, <2>3, EmitFlush
  <2> HIDE DEF a, z
  <2>5. <<a>> = Append(<<>>, a)
    BY <1>2
  <2>6. <<a, z>> = Append(<<a>>, z)
    BY <1>2
  <2> QED BY <2>4, <2>5, <2>6
<1>8. Types
  <2>1. channel \in Seq(Packets)
    <3> HIDE DEF a, z
    <3> QED BY <1>1, <1>2
  <2>2. inbox \in Seq(Inputs)
    <3>1. "plain" \in Inputs
      BY DEF Inputs, Boundary
    <3> QED BY <1>1, <3>1
  <2>3. ui \in Seq(BOOLEAN)
    BY <1>1
  <2> QED BY <1>1, <1>3, <2>1, <2>2, <2>3 DEF Types, Clients, Exchanging, Boundaries, Modes
<1>9. GameShape /\ Asked /\ Ends /\ OfItsKey
  BY <1>1, <1>5 DEF GameShape, Asked, Ends, OfItsKey, NoEvidence
<1>10. Replayed
  <2>1. Agrees(s)
    <3> HIDE DEF s
    <3> QED BY <1>1, <1>5, <1>6 DEF Agrees
  <2>2. Leads(boundary, Holds, sent + 1, channel, s, Rests)
    <3> HIDE DEF s, a, z
    <3> QED BY <1>1, <1>7
  <2> QED BY <1>6, <2>1, <2>2 DEF Replayed
<1>11. Counted(taken, inbox, sent + 1)
  <2>1. Counted(0, <<>>, 0)
    <3> DEFINE c == [i \in 0..0 |-> 0]
    <3>1. c \in [0..Len(<<>>) -> Nat] /\ c[0] = 0 /\ c[Len(<<>>)] = 0 /\ 1..Len(<<>>) = {}
      OBVIOUS
    <3> HIDE DEF c
    <3> QED BY <3>1 DEF Counted
  <2>2. "plain" \in Inputs /\ "plain" # "probe" /\ <<>> \in Seq(Inputs)
    BY DEF Inputs, Boundary
  <2>3. Counted(0, Append(<<>>, "plain"), 0 + (IF "plain" = "probe" THEN 0 ELSE 1))
    BY <2>1, <2>2, CountedAppend
  <2>4. <<"plain">> = Append(<<>>, "plain")
    OBVIOUS
  <2> QED BY <1>1, <2>3, <2>4
<1> QED BY <1>8, <1>9, <1>10, <1>11 DEF BInv
-------------------------------------------------------------------------------
(* What it is for.                                                            *)

LEMMA BInvDecides == ASSUME BInv PROVE DecidesOnlyAtInput
<1> SUFFICES ASSUME client = "deciding"
             PROVE  /\ boundary \in Guarded => GameWaits /\ channel = <<>>
                    /\ Legal("stairs") => mode = 1 /\ ui = <<>> /\ ~line
  BY DEF DecidesOnlyAtInput
<1>1. boundary \in Guarded => GameWaits /\ channel = <<>>
  BY DEF BInv, Ends, Guards, Rests, GameWaits
<1>2. ASSUME Legal("stairs") PROVE mode = 1 /\ ui = <<>> /\ ~line
  <2>1. lastMode = 1
    BY <1>2 DEF Legal
  <2>2. channel = <<>>
    BY <2>1 DEF BInv, Ends, NoMode
  <2>3. mode = 1
    BY <2>1, <2>2, AllRead DEF NoMode
  <2> QED BY <2>3 DEF BInv, GameShape
<1> QED BY <1>1, <1>2

LEMMA BInvEvidence == ASSUME BInv PROVE EvidenceIsItsOwn
<1>1. ASSUME boundary \in Guarded, channel = <<>> PROVE IsSuffix(evidence.ui_stack, ui)
  <2>1. evidence.ui_stack = ui
    BY <1>1, AllRead DEF Guards
  <2> DEFINE u == Reverse(ui)
  <2>2. u \in Seq(BOOLEAN)
    <3>1. ui \in Seq(BOOLEAN)
      BY DEF BInv, Types
    <3>2. u \in [1..Len(ui) -> BOOLEAN] /\ Len(ui) \in Nat
      BY <3>1 DEF Reverse
    <3> QED BY <3>2
  <2> HIDE DEF u
  <2>3. Len(u) <= Len(u)
    BY <2>2
  <2>4. IsPrefix(u, u)
    BY <2>3 DEF IsPrefix
  <2> QED BY <2>1, <2>4 DEF IsSuffix, u
<1>2. ASSUME client = "deciding", boundary = "level-transition" PROVE evidence.of = sent + 1
  BY <1>2 DEF BInv, OfItsKey
<1> QED BY <1>1, <1>2 DEF EvidenceIsItsOwn

\* After stairs or a more acknowledgement the agent decides only when the game waits and
\* nothing of it is unread, and stairs are legal only where the game reads commands,
\* for any number of keys, flushes and layers, when the game answers in time.
THEOREM BoundarySound == ASSUME Prompt PROVE Spec => []DecidesOnlyAtInput
<1>1. Init => BInv
  BY InitBInv
<1>2. BInv /\ [Next]_vars => BInv'
  BY NextBInv
<1>3. BInv => DecidesOnlyAtInput
  BY BInvDecides
<1> QED BY <1>1, <1>2, <1>3, PTL DEF Spec

\* Likewise the layers of an exchange's evidence are the game's own once everything is
\* read, and what certifies a level transition was said after its own key was taken.
THEOREM EvidenceSound == ASSUME Prompt PROVE Spec => []EvidenceIsItsOwn
<1>1. Init => BInv
  BY InitBInv
<1>2. BInv /\ [Next]_vars => BInv'
  BY NextBInv
<1>3. BInv => EvidenceIsItsOwn
  BY BInvEvidence
<1> QED BY <1>1, <1>2, <1>3, PTL DEF Spec
===============================================================================
