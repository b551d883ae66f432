-------------------------- MODULE PongClientProofs --------------------------
(***************************************************************************)
(* The safety of the client program, for windows and texts of any size and *)
(* any number of packets in flight.                                        *)
(***************************************************************************)
EXTENDS PongClient, SequenceTheorems, TLAPS

-----------------------------------------------------------------------------
(* The statements of a handler *)

(* What Statement takes away is the first of the statements, and the       *)
(* others move up.                                                         *)
LEMMA RestOfHandler ==
    ASSUME recv \in Seq(Statements), recv # <<>>, recv' = Tail(recv)
    PROVE  /\ recv' \in Seq(Statements)
           /\ Len(recv) \in Nat \ {0}
           /\ DOMAIN recv = 1 .. Len(recv) /\ DOMAIN recv' = 1 .. Len(recv) - 1
           /\ 1 \in DOMAIN recv /\ Head(recv) = recv[1] /\ recv[1] \in Statements
           /\ \A k \in DOMAIN recv' : k + 1 \in DOMAIN recv /\ recv'[k] = recv[k + 1]
           /\ \A k \in DOMAIN recv : k # 1 => k - 1 \in DOMAIN recv' /\ recv'[k - 1] = recv[k]
  <1>1. recv \in Seq(Statements) /\ Len(recv) \in Nat \ {0} /\ DOMAIN recv = 1 .. Len(recv)
    OBVIOUS
  <1>2. /\ Tail(recv) \in Seq(Statements) /\ Len(Tail(recv)) = Len(recv) - 1
        /\ \A k \in 1 .. Len(recv) - 1 : Tail(recv)[k] = recv[k + 1]
    BY <1>1
  <1>3. recv' \in Seq(Statements) /\ DOMAIN recv' = 1 .. Len(recv) - 1
    BY <1>2
  <1>4. 1 \in DOMAIN recv /\ Head(recv) = recv[1] /\ recv[1] \in Statements
    BY <1>1
  <1>5. \A k \in DOMAIN recv' : k + 1 \in DOMAIN recv /\ recv'[k] = recv[k + 1]
    BY <1>1, <1>2, <1>3
  <1>6. ASSUME NEW k \in DOMAIN recv, k # 1
        PROVE  k - 1 \in DOMAIN recv' /\ recv'[k - 1] = recv[k]
    <2>1. k \in Int /\ k - 1 \in 1 .. Len(recv) - 1 /\ (k - 1) + 1 = k
      BY <1>1, <1>6
    <2> QED
      BY <1>2, <1>3, <2>1
  <1> QED
    BY <1>1, <1>2, <1>3, <1>4, <1>5, <1>6

(* The three statements that are no assignments, and the assignments. *)
LEMMA StatementKinds ==
    ASSUME NEW st \in Statements
    PROVE  \/ st[1] \in {"clear input", "clear chat", "append"}
           \/ st[1] = "screen" /\ st[2] \in Screens
           \/ st[1] = "shown" /\ st[2] \in {MaxWith, MaxWithout}
           \/ st[1] = "mouse" /\ st[2] \in Mice
           \/ st[1] = "keyboard" /\ st[2] \in Keyboards
           \/ st[1] = "special" /\ st[2] \in {"game", "none"}
  <1>1. ASSUME st \in {<<"clear input">>, <<"clear chat">>, <<"append">>}
        PROVE  st[1] \in {"clear input", "clear chat", "append"}
    <2>1. CASE st = <<"clear input">>
      BY <2>1
    <2>2. CASE st = <<"clear chat">>
      BY <2>2
    <2>3. CASE st = <<"append">>
      BY <2>3
    <2> QED
      BY <1>1, <2>1, <2>2, <2>3
  <1>2. ASSUME st \in {"screen"} \X Screens
        PROVE  st[1] = "screen" /\ st[2] \in Screens
    BY <1>2
  <1>3. ASSUME st \in {"shown"} \X {MaxWith, MaxWithout}
        PROVE  st[1] = "shown" /\ st[2] \in {MaxWith, MaxWithout}
    BY <1>3
  <1>4. ASSUME st \in {"mouse"} \X Mice
        PROVE  st[1] = "mouse" /\ st[2] \in Mice
    BY <1>4
  <1>5. ASSUME st \in {"keyboard"} \X Keyboards
        PROVE  st[1] = "keyboard" /\ st[2] \in Keyboards
    BY <1>5
  <1>6. ASSUME st \in {"special"} \X {"game", "none"}
        PROVE  st[1] = "special" /\ st[2] \in {"game", "none"}
    BY <1>6
  <1> QED
    BY <1>1, <1>2, <1>3, <1>4, <1>5, <1>6 DEF Statements

(* An assignment that the handler still makes decides; the one it has just *)
(* made decided before: what is to be at the end does not change.          *)
LEMMA EndsKept ==
    ASSUME recv \in Seq(Statements), recv # <<>>, recv' = Tail(recv), NEW x, NEW v,
           rend'[x] = IF recv[1][1] = x THEN recv[1][2] ELSE rend[x],
           Ends(x, v)
    PROVE  Ends(x, v)'
  <1>1. /\ 1 \in DOMAIN recv
        /\ \A k \in DOMAIN recv' : k + 1 \in DOMAIN recv /\ recv'[k] = recv[k + 1]
        /\ \A k \in DOMAIN recv : k # 1 => k - 1 \in DOMAIN recv' /\ recv'[k - 1] = recv[k]
    BY RestOfHandler
  <1>2. \A k \in DOMAIN recv' : recv'[k][1] = x => recv'[k][2] = v
    BY <1>1 DEF Ends
  <1>3. ASSUME \A k \in DOMAIN recv' : recv'[k][1] # x
        PROVE  rend'[x] = v
    <2>1. CASE recv[1][1] = x
      BY <1>1, <2>1 DEF Ends
    <2>2. CASE recv[1][1] # x
      <3>1. \A k \in DOMAIN recv : recv[k][1] # x
        BY <1>1, <1>3, <2>2
      <3> QED
        BY <2>2, <3>1 DEF Ends
    <2> QED
      BY <2>1, <2>2
  <1> QED
    BY <1>2, <1>3 DEF Ends

-----------------------------------------------------------------------------
(* The chat and its window *)

(* A statement of a handler leaves the types. *)
LEMMA StatementTypes ==
    ASSUME TypeOK, ThreadsOK, Statement
    PROVE  TypeOK' /\ ThreadsOK'
  <1>1. recv # <<>> /\ recv' = Tail(recv)
    BY DEF Statement
  <1>2. recv' \in Seq(Statements) /\ Head(recv) = recv[1] /\ recv[1] \in Statements
    BY <1>1, RestOfHandler DEF ThreadsOK
  <1>3. rend \in RendType /\ rend.chat \in Nat /\ main \in MainType /\ main.node \in Int
    BY DEF ThreadsOK, RendType, MainType
  <1>4. \A n \in Nat : /\ Popped(n) \in MainType
                       /\ Popped(n).at = main.at /\ Popped(n).next = main.next
    BY <1>3 DEF Popped, MainType, Freed
  <1>5. /\ rend' \in RendType /\ text' \in {text, 0}
        /\ main' \in MainType /\ main'.at = main.at /\ main'.next = main.next
    <2>1. CASE ClearInput
      BY <1>3, <2>1 DEF ClearInput
    <2>2. CASE ClearChat
      BY <1>3, <1>4, <2>2 DEF ClearChat, RendType
    <2>3. CASE AppendToChat
      BY <1>3, <1>4, <2>3 DEF AppendToChat, RendType
    <2>4. CASE Assign
      <3>1. rend' = [rend EXCEPT ![recv[1][1]] = recv[1][2]] /\ main' = main /\ text' = text
        BY <1>2, <2>4 DEF Assign
      <3>2. recv[1][1] \in DOMAIN rend
        BY <1>2, <2>4 DEF Assign
      <3>3. rend' \in RendType
        BY <1>2, <1>3, <3>1, <3>2, StatementKinds DEF RendType
      <3> QED
        BY <1>3, <3>1, <3>3
    <2> QED
      BY <2>1, <2>2, <2>3, <2>4 DEF Statement
  <1>6. UNCHANGED <<server, reply, loop, chatter, channel, mail, lobbyData, keys, even>>
    BY DEF Statement, ServerVars
  <1>7. rend'.screen \in Screens
    BY <1>5 DEF RendType
  <1>8. text' \in -1 .. MaxText /\ (main'.at = "backspace" => text' >= 0)
        /\ (main'.at = "send" => main'.next # "backspace")
    BY <1>5, ClientAssumption DEF TypeOK, ThreadsOK
  <1> QED
    BY <1>2, <1>5, <1>6, <1>7, <1>8 DEF TypeOK, ThreadsOK

(* What a statement does to the chat and its window *)
LEMMA ChatSteps ==
    ASSUME ThreadsOK, Statement
    PROVE  \/ recv[1][1] = "clear chat" /\ rend'.chat = 0 /\ rend'.shown = rend.shown
           \/ /\ recv[1][1] = "append" /\ rend'.shown = rend.shown
              /\ rend'.chat = IF rend.chat = rend.shown THEN rend.chat ELSE rend.chat + 1
           \/ recv[1][1] = "shown" /\ rend'.chat = rend.chat /\ rend'.shown = recv[1][2]
           \/ /\ recv[1][1] \notin {"clear chat", "append", "shown"}
              /\ rend'.chat = rend.chat /\ rend'.shown = rend.shown
  <1>1. Head(recv) = recv[1] /\ recv[1] \in Statements
    BY RestOfHandler DEF ThreadsOK, Statement
  <1>2. recv[1][1] # "chat" /\ rend.chat \in Nat
    BY <1>1, StatementKinds DEF ThreadsOK, RendType
  <1>3. CASE ClearInput
    BY <1>1, <1>3 DEF ClearInput
  <1>4. CASE ClearChat
    BY <1>1, <1>4 DEF ClearChat, ThreadsOK, RendType
  <1>5. CASE AppendToChat
    BY <1>1, <1>5 DEF AppendToChat, ThreadsOK, RendType
  <1>6. CASE Assign
    BY <1>1, <1>2, <1>6, StatementKinds DEF Assign, ThreadsOK, RendType
  <1> QED
    BY <1>3, <1>4, <1>5, <1>6 DEF Statement

(* A handler has no more appends later than now. *)
LEMMA OnceKept ==
    ASSUME ThreadsOK, Statement, Once("append")
    PROVE  Once("append")'
  <1>1. \A k \in DOMAIN recv' : k \in Int /\ k + 1 \in DOMAIN recv /\ recv'[k] = recv[k + 1]
    BY RestOfHandler DEF ThreadsOK, Statement
  <1> SUFFICES ASSUME NEW j \in DOMAIN recv', NEW k \in DOMAIN recv',
                      recv'[j][1] = "append", recv'[k][1] = "append"
               PROVE  j = k
    BY DEF Once
  <1>2. j + 1 = k + 1
    BY <1>1 DEF Once
  <1> QED
    BY <1>1, <1>2

(* The chat fits into its window after each statement. *)
LEMMA ChatKept ==
    ASSUME ThreadsOK, Statement, ChatFits, Once("append"), WindowFits
    PROVE  ChatFits' /\ WindowFits'
  <1>1. /\ 1 \in DOMAIN recv /\ recv[1] \in Statements
        /\ \A k \in DOMAIN recv' : /\ k \in Nat \ {0} /\ k + 1 \in DOMAIN recv
                                   /\ recv'[k] = recv[k + 1]
        /\ \A k \in DOMAIN recv' : \A j \in 1 .. k - 1 : j \in DOMAIN recv'
    BY RestOfHandler DEF ThreadsOK, Statement
  <1>2. rend.chat \in Nat /\ rend.shown \in Nat \ {0}
    BY ClientAssumption DEF ThreadsOK, RendType
  <1>3. ChatFits'
    <2>1. CASE recv[1][1] = "shown"
      <3>1. rend.chat \in {0, 1}
        <4>1. 1 .. 1 - 1 = {}
          OBVIOUS
        <4> QED
          BY <1>1, <2>1, <4>1 DEF WindowFits
      <3>2. recv[1][2] \in Nat \ {0}
        <4>1. recv[1][2] \in {MaxWith, MaxWithout}
          BY <1>1, <2>1, StatementKinds
        <4> QED
          BY <4>1, ClientAssumption
      <3> QED
        BY <2>1, <3>1, <3>2, ChatSteps DEF ChatFits
    <2>2. CASE recv[1][1] # "shown"
      <3>1. \/ rend'.chat = 0 /\ rend'.shown = rend.shown
            \/ rend'.chat = rend.chat /\ rend'.shown = rend.shown
            \/ /\ rend.chat # rend.shown
               /\ rend'.chat = rend.chat + 1 /\ rend'.shown = rend.shown
        BY <2>2, ChatSteps
      <3> QED
        BY <1>2, <3>1 DEF ChatFits
    <2> QED
      BY <2>1, <2>2
  <1>4. ASSUME NEW k \in DOMAIN recv', recv'[k][1] = "shown",
               \A j \in 1 .. k - 1 : recv'[j][1] # "clear chat"
        PROVE  \/ rend'.chat = 0
               \/ rend'.chat = 1 /\ \A j \in 1 .. k - 1 : recv'[j][1] # "append"
    <2>1. k + 1 \in DOMAIN recv /\ recv[k + 1][1] = "shown"
      BY <1>1, <1>4
    <2>2. \A j \in 1 .. k : j \in DOMAIN recv
      BY <1>1, <2>1, RestOfHandler DEF ThreadsOK, Statement
    <2>3. \A j \in 1 .. k : j # 1 => j - 1 \in 1 .. k - 1 /\ recv'[j - 1] = recv[j]
      BY <1>1, <2>2, RestOfHandler DEF ThreadsOK, Statement
    <2>4. \A j \in 1 .. k - 1 : j + 1 \in 1 .. k /\ j + 1 # 1 /\ recv'[j] = recv[j + 1]
      BY <1>1
    <2>5. CASE recv[1][1] = "clear chat"
      <3>1. rend'.chat = 0
        BY <2>5, ChatSteps
      <3> QED
        BY <3>1
    <2>6. CASE recv[1][1] # "clear chat"
      <3>1. \A j \in 1 .. k : recv[j][1] # "clear chat"
        BY <1>4, <2>3, <2>6
      <3>2. (k + 1) - 1 = k
        BY <1>1
      <3>3. rend.chat = 0 \/ (rend.chat = 1 /\ \A j \in 1 .. k : recv[j][1] # "append")
        BY <2>1, <3>1, <3>2 DEF WindowFits
      <3>4. CASE recv[1][1] = "append"
        <4>1. \A j \in 1 .. k : j # 1 => recv[j][1] # "append"
          BY <1>1, <2>2, <3>4 DEF Once
        <4>2. \A j \in 1 .. k - 1 : recv'[j][1] # "append"
          BY <2>4, <4>1
        <4>3. 1 \in 1 .. k
          BY <1>1
        <4>4. rend.chat = 0
          BY <3>3, <3>4, <4>3
        <4>5. rend'.chat = 1
          BY <1>2, <3>4, <4>4, ChatSteps
        <4> QED
          BY <4>2, <4>5
      <3>5. CASE recv[1][1] # "append"
        <4>1. rend'.chat = rend.chat
          BY <2>6, <3>5, ChatSteps
        <4> QED
          BY <2>4, <3>3, <4>1
      <3> QED
        BY <3>4, <3>5
    <2> QED
      BY <2>5, <2>6
  <1> QED
    BY <1>3, <1>4 DEF WindowFits

-----------------------------------------------------------------------------
(* The course of the screens *)

(* A statement assigns to the field it names. *)
LEMMA StatementAssigns ==
    ASSUME ThreadsOK, Statement, NEW x \in {"screen", "mouse", "keyboard"}
    PROVE  rend'[x] = IF recv[1][1] = x THEN recv[1][2] ELSE rend[x]
  <1>1. Head(recv) = recv[1] /\ recv[1] \in Statements
    BY RestOfHandler DEF ThreadsOK, Statement
  <1>2. x \in DOMAIN rend /\ x # "chat"
    BY DEF ThreadsOK, RendType
  <1>3. CASE ClearInput
    BY <1>1, <1>3 DEF ClearInput
  <1>4. CASE ClearChat
    BY <1>1, <1>2, <1>4 DEF ClearChat
  <1>5. CASE AppendToChat
    BY <1>1, <1>2, <1>5 DEF AppendToChat
  <1>6. CASE Assign
    BY <1>1, <1>2, <1>6 DEF Assign
  <1> QED
    BY <1>3, <1>4, <1>5, <1>6 DEF Statement

(* Where the client may be is a question to the server alone. *)
LEMMA ServerUnchanged ==
    ASSUME UNCHANGED ServerVars
    PROVE  (\A s : Ahead(s)' <=> Ahead(s)) /\ (WaitsFit' <=> WaitsFit)
  <1>1. server' = server /\ reply' = reply /\ loop' = loop
    BY DEF ServerVars
  <1>2. ScreensOf' = ScreensOf
    BY <1>1 DEF ScreensOf, InMenu
  <1>3. \A s : Ahead(s)' <=> Ahead(s)
    BY <1>1, <1>2 DEF Ahead
  <1>4. WaitsFit' <=> WaitsFit
    BY <1>1 DEF WaitsFit
  <1> QED
    BY <1>3, <1>4

(* A statement brings the client no further on its course. *)
LEMMA StatementCourse ==
    ASSUME ThreadsOK, Statement, InCourse
    PROVE  InCourse'
  <1>1. PICK scr \in [0 .. Len(channel) -> Screens] : Course(scr)
    BY DEF InCourse
  <1>2. recv \in Seq(Statements) /\ recv # <<>> /\ recv' = Tail(recv)
    BY DEF ThreadsOK, Statement
  <1>3. /\ Ends("screen", scr[0])' /\ Ends("mouse", MouseOf[scr[0]])'
        /\ Ends("keyboard", KeyboardOf[scr[0]])'
    BY <1>1, <1>2, EndsKept, StatementAssigns DEF Course
  <1>4. channel' = channel /\ \A s : Ahead(s)' <=> Ahead(s)
    BY ServerUnchanged DEF Statement
  <1>5. Course(scr)'
    BY <1>1, <1>3, <1>4 DEF Course
  <1> QED
    BY <1>4, <1>5 DEF InCourse

(* The server may move on where the client can be on either screen. *)
LEMMA CourseKept ==
    ASSUME InCourse, TypeOK, UNCHANGED <<recv, rend, channel>>,
           \A s \in Screens : Ahead(s) => Ahead(s)'
    PROVE  InCourse'
  <1>1. PICK scr \in [0 .. Len(channel) -> Screens] : Course(scr)
    BY DEF InCourse
  <1>2. PICK t \in Screens : t = scr[Len(channel)] /\ Ahead(t)
    BY <1>1 DEF Course, TypeOK
  <1>3. Ahead(t)'
    BY <1>2
  <1>4. Ahead(scr[Len(channel)])'
    BY <1>2, <1>3 DEF Ahead
  <1>5. Course(scr)'
    BY <1>1, <1>4 DEF Course, Ends
  <1> QED
    BY <1>5 DEF InCourse

(* What the server sends takes the client from every screen it can be on   *)
(* to one that fits the server.                                            *)
LEMMA CourseGrows ==
    ASSUME InCourse, TypeOK, UNCHANGED <<recv, rend>>,
           NEW p, channel' = Append(channel, p),
           \A s \in Screens :
              Ahead(s) => Fits(p, s) /\ \E t \in Screens : t = After(s, p) /\ Ahead(t)'
    PROVE  InCourse'
  <1> DEFINE n == Len(channel)
  <1>1. n \in Nat /\ DOMAIN channel = 1 .. n
    BY DEF TypeOK
  <1>2. /\ Len(channel') = n + 1 /\ DOMAIN channel' = 1 .. n + 1 /\ channel'[n + 1] = p
        /\ \A k \in 1 .. n : channel'[k] = channel[k]
    BY DEF TypeOK
  <1>3. PICK scr \in [0 .. n -> Screens] : Course(scr)
    BY DEF InCourse
  <1>4. PICK s \in Screens : s = scr[n] /\ Ahead(s)
    BY <1>1, <1>3 DEF Course
  <1>t. PICK t \in Screens : t = After(s, p) /\ Ahead(t)'
    BY <1>4
  <1>f. Fits(p, s)
    BY <1>4
  <1> HIDE DEF n
  <1>5. PICK new \in [0 .. n + 1 -> Screens] :
           (\A k \in 0 .. n : new[k] = scr[k]) /\ new[n + 1] = t
    <2> DEFINE new == [k \in 0 .. n + 1 |-> IF k <= n THEN scr[k] ELSE t]
    <2>1. /\ new \in [0 .. n + 1 -> Screens]
          /\ (\A k \in 0 .. n : new[k] = scr[k]) /\ new[n + 1] = t
      BY <1>1, <1>4
    <2> QED
      BY <2>1
  <1>6. Ends("screen", new[0])' /\ Ends("mouse", MouseOf[new[0]])' /\ Ends("keyboard", KeyboardOf[new[0]])'
    BY <1>1, <1>3, <1>5 DEF Course, Ends
  <1>7. ASSUME NEW k \in DOMAIN channel'
        PROVE  Fits(channel'[k], new[k - 1]) /\ new[k] = After(new[k - 1], channel'[k])
    <2>1. CASE k \in 1 .. n
      BY <1>1, <1>2, <1>3, <1>5, <2>1 DEF Course
    <2>2. CASE k = n + 1
      BY <1>1, <1>2, <1>4, <1>t, <1>f, <1>5, <2>2
    <2> QED
      BY <1>1, <1>2, <2>1, <2>2
  <1>8. new[Len(channel')] = t
    BY <1>2, <1>5
  <1>a. Ahead(new[Len(channel)])'
    BY <1>t, <1>8 DEF Ahead
  <1>9. Course(new)'
    BY <1>6, <1>7, <1>a DEF Course
  <1> QED
    BY <1>2, <1>5, <1>9 DEF InCourse

(* A packet is received: the course begins after it, when its handler ends *)
(* as it should.                                                           *)
LEMMA CourseShifts ==
    ASSUME InCourse, TypeOK, ThreadsOK, recv = <<>>, channel # <<>>, channel' = Tail(channel),
           UNCHANGED <<rend, ServerVars>>,
           rend.mouse = MouseOf[rend.screen] /\ rend.keyboard = KeyboardOf[rend.screen] =>
             \E s \in Screens :
               /\ s = After(rend.screen, Head(channel))
               /\ Ends("screen", s)' /\ Ends("mouse", MouseOf[s])'
               /\ Ends("keyboard", KeyboardOf[s])'
    PROVE  InCourse'
  <1> DEFINE n == Len(channel)
  <1>1. n \in Nat \ {0} /\ DOMAIN channel = 1 .. n /\ Head(channel) = channel[1]
    BY DEF TypeOK
  <1>2. /\ Len(channel') = n - 1 /\ DOMAIN channel' = 1 .. n - 1
        /\ \A k \in 1 .. n - 1 : channel'[k] = channel[k + 1]
    BY DEF TypeOK
  <1>3. PICK scr \in [0 .. n -> Screens] : Course(scr)
    BY DEF InCourse
  <1>4. scr[0] = rend.screen /\ scr[1] = After(scr[0], channel[1])
    BY <1>1, <1>3 DEF Course, Ends
  <1>l. rend.mouse = MouseOf[rend.screen] /\ rend.keyboard = KeyboardOf[rend.screen]
    BY <1>3, <1>4 DEF Course, Ends
  <1>5. PICK t \in Screens : t = scr[n] /\ Ahead(t)
    BY <1>1, <1>3 DEF Course
  <1>t. Ahead(t)'
    BY <1>5, ServerUnchanged
  <1>6. \A k \in 1 .. n : Fits(channel[k], scr[k - 1]) /\ scr[k] = After(scr[k - 1], channel[k])
    BY <1>1, <1>3 DEF Course
  <1> HIDE DEF n
  <1>7. PICK new \in [0 .. n - 1 -> Screens] : \A k \in 0 .. n - 1 : new[k] = scr[k + 1]
    <2> DEFINE new == [k \in 0 .. n - 1 |-> scr[k + 1]]
    <2>1. new \in [0 .. n - 1 -> Screens] /\ \A k \in 0 .. n - 1 : new[k] = scr[k + 1]
      BY <1>1
    <2> QED
      BY <2>1
  <1>8. new[0] = After(rend.screen, Head(channel))
    BY <1>1, <1>4, <1>7
  <1>9. Ends("screen", new[0])' /\ Ends("mouse", MouseOf[new[0]])' /\ Ends("keyboard", KeyboardOf[new[0]])'
    BY <1>l, <1>8
  <1>10. ASSUME NEW k \in DOMAIN channel'
         PROVE  Fits(channel'[k], new[k - 1]) /\ new[k] = After(new[k - 1], channel'[k])
    <2>1. /\ k \in 1 .. n - 1 /\ k + 1 \in 1 .. n /\ (k + 1) - 1 = k
          /\ k - 1 \in 0 .. n - 1 /\ k \in 0 .. n - 1 /\ (k - 1) + 1 = k
      BY <1>1, <1>2
    <2>2. new[k - 1] = scr[k] /\ new[k] = scr[k + 1] /\ channel'[k] = channel[k + 1]
      BY <1>2, <1>7, <2>1
    <2>3. Fits(channel[k + 1], scr[k]) /\ scr[k + 1] = After(scr[k], channel[k + 1])
      BY <1>6, <2>1
    <2> QED
      BY <2>2, <2>3
  <1>11. Ahead(new[Len(channel)])'
    <2>1. n - 1 \in 0 .. n - 1 /\ (n - 1) + 1 = n
      BY <1>1
    <2>2. new[Len(channel')] = t
      BY <1>2, <1>5, <1>7, <2>1
    <2> QED
      BY <1>t, <2>2 DEF Ahead
  <1>12. Course(new)'
    BY <1>9, <1>10, <1>11 DEF Course
  <1> QED
    BY <1>2, <1>7, <1>12 DEF InCourse

-----------------------------------------------------------------------------
(* The handlers *)

(* What a handler h that leads to the screen s has to be *)
LeadsTo(h, s) ==
    /\ h \in Seq(Statements)
    /\ \A k \in DOMAIN h : h[k][1] = "screen" => h[k][2] = s
    /\ \A k \in DOMAIN h : h[k][1] = "mouse" => h[k][2] = MouseOf[s]
    /\ \A k \in DOMAIN h : h[k][1] = "keyboard" => h[k][2] = KeyboardOf[s]
    /\ \E k \in DOMAIN h : h[k][1] = "screen"
    /\ \E k \in DOMAIN h : h[k][1] = "keyboard"
    /\ s # "GAME" => \E k \in DOMAIN h : h[k][1] = "mouse"
    /\ \A j, k \in DOMAIN h : h[j][1] = "append" /\ h[k][1] = "append" => j = k
    /\ \A k \in DOMAIN h : h[k][1] = "shown" => \E j \in 1 .. k - 1 : h[j][1] = "clear chat"

(* process_accept *)
LEMMA AcceptedLeads == LeadsTo(Accepted, "MENU")
  <1> DEFINE h == Accepted
  <1>1. h \in Seq(Statements) /\ DOMAIN h = 1 .. 6
    BY DEF Accepted, Statements, Screens, Mice, Keyboards
  <1>2. /\ h[1][1] = "clear input"
        /\ h[2][1] = "clear chat"
        /\ h[3][1] = "append"
        /\ h[4][1] = "keyboard" /\ h[4][2] = "none"
        /\ h[5][1] = "mouse" /\ h[5][2] = "menu"
        /\ h[6][1] = "screen" /\ h[6][2] = "MENU"
    BY DEF Accepted
  <1> HIDE DEF h
  <1>3. \A k \in DOMAIN h : k \in {1, 2, 3, 4, 5, 6}
    BY <1>1
  <1>4. {1, 2, 3, 4, 5, 6} \subseteq DOMAIN h
    BY <1>1
  <1>6. \A k \in DOMAIN h : h[k][1] = "shown" => \E j \in 1 .. k - 1 : h[j][1] = "clear chat"
    BY <1>2, <1>3
  <1>7. /\ \A k \in DOMAIN h : h[k][1] = "screen" => h[k][2] = "MENU"
        /\ \A k \in DOMAIN h : h[k][1] = "mouse" => h[k][2] = MouseOf["MENU"]
        /\ \A k \in DOMAIN h : h[k][1] = "keyboard" => h[k][2] = KeyboardOf["MENU"]
    BY <1>2, <1>3 DEF MouseOf, KeyboardOf
  <1>8. \A j, k \in DOMAIN h : h[j][1] = "append" /\ h[k][1] = "append" => j = k
    BY <1>2, <1>3
  <1>9. /\ \E k \in DOMAIN h : h[k][1] = "screen"
        /\ \E k \in DOMAIN h : h[k][1] = "keyboard"
        /\ \E k \in DOMAIN h : h[k][1] = "mouse"
    BY <1>2, <1>4
  <1>10. LeadsTo(h, "MENU")
    BY <1>1, <1>6, <1>7, <1>8, <1>9 DEF LeadsTo
  <1> QED
    BY <1>10 DEF h

(* process_return_to_menu *)
LEMMA ToMenuLeads == LeadsTo(ToMenu, "MENU")
  <1> DEFINE h == ToMenu
  <1>1. h \in Seq(Statements) /\ DOMAIN h = 1 .. 5
    BY DEF ToMenu, Statements, Screens, Mice, Keyboards
  <1>2. /\ h[1][1] = "clear input"
        /\ h[2][1] = "clear chat"
        /\ h[3][1] = "keyboard" /\ h[3][2] = "none"
        /\ h[4][1] = "mouse" /\ h[4][2] = "menu"
        /\ h[5][1] = "screen" /\ h[5][2] = "MENU"
    BY DEF ToMenu
  <1> HIDE DEF h
  <1>3. \A k \in DOMAIN h : k \in {1, 2, 3, 4, 5}
    BY <1>1
  <1>4. {1, 2, 3, 4, 5} \subseteq DOMAIN h
    BY <1>1
  <1>6. \A k \in DOMAIN h : h[k][1] = "shown" => \E j \in 1 .. k - 1 : h[j][1] = "clear chat"
    BY <1>2, <1>3
  <1>7. /\ \A k \in DOMAIN h : h[k][1] = "screen" => h[k][2] = "MENU"
        /\ \A k \in DOMAIN h : h[k][1] = "mouse" => h[k][2] = MouseOf["MENU"]
        /\ \A k \in DOMAIN h : h[k][1] = "keyboard" => h[k][2] = KeyboardOf["MENU"]
    BY <1>2, <1>3 DEF MouseOf, KeyboardOf
  <1>8. \A j, k \in DOMAIN h : h[j][1] = "append" /\ h[k][1] = "append" => j = k
    BY <1>2, <1>3
  <1>9. /\ \E k \in DOMAIN h : h[k][1] = "screen"
        /\ \E k \in DOMAIN h : h[k][1] = "keyboard"
        /\ \E k \in DOMAIN h : h[k][1] = "mouse"
    BY <1>2, <1>4
  <1>10. LeadsTo(h, "MENU")
    BY <1>1, <1>6, <1>7, <1>8, <1>9 DEF LeadsTo
  <1> QED
    BY <1>10 DEF h

(* process_lobby *)
LEMMA ToLobbyLeads == LeadsTo(ToLobby, "LOBBY")
  <1> DEFINE h == ToLobby
  <1>1. h \in Seq(Statements) /\ DOMAIN h = 1 .. 6
    BY DEF ToLobby, Statements, Screens, Mice, Keyboards
  <1>2. /\ h[1][1] = "clear chat"
        /\ h[2][1] = "append"
        /\ h[3][1] = "keyboard" /\ h[3][2] = "type"
        /\ h[4][1] = "mouse" /\ h[4][2] = "lobby"
        /\ h[5][1] = "shown" /\ h[5][2] = MaxWith
        /\ h[6][1] = "screen" /\ h[6][2] = "LOBBY"
    BY DEF ToLobby
  <1> HIDE DEF h
  <1>3. \A k \in DOMAIN h : k \in {1, 2, 3, 4, 5, 6}
    BY <1>1
  <1>4. {1, 2, 3, 4, 5, 6} \subseteq DOMAIN h
    BY <1>1
  <1>5. 1 \in 1 .. 5 - 1
    OBVIOUS
  <1>6. \A k \in DOMAIN h : h[k][1] = "shown" => \E j \in 1 .. k - 1 : h[j][1] = "clear chat"
    BY <1>2, <1>3, <1>5
  <1>7. /\ \A k \in DOMAIN h : h[k][1] = "screen" => h[k][2] = "LOBBY"
        /\ \A k \in DOMAIN h : h[k][1] = "mouse" => h[k][2] = MouseOf["LOBBY"]
        /\ \A k \in DOMAIN h : h[k][1] = "keyboard" => h[k][2] = KeyboardOf["LOBBY"]
    BY <1>2, <1>3 DEF MouseOf, KeyboardOf
  <1>8. \A j, k \in DOMAIN h : h[j][1] = "append" /\ h[k][1] = "append" => j = k
    BY <1>2, <1>3
  <1>9. /\ \E k \in DOMAIN h : h[k][1] = "screen"
        /\ \E k \in DOMAIN h : h[k][1] = "keyboard"
        /\ \E k \in DOMAIN h : h[k][1] = "mouse"
    BY <1>2, <1>4
  <1>10. LeadsTo(h, "LOBBY")
    BY <1>1, <1>6, <1>7, <1>8, <1>9 DEF LeadsTo
  <1> QED
    BY <1>10 DEF h

(* process_game_ready *)
LEMMA ToLoadingLeads == LeadsTo(ToLoading, "LOADING")
  <1> DEFINE h == ToLoading
  <1>1. h \in Seq(Statements) /\ DOMAIN h = 1 .. 6
    BY DEF ToLoading, Statements, Screens, Mice, Keyboards
  <1>2. /\ h[1][1] = "clear input"
        /\ h[2][1] = "clear chat"
        /\ h[3][1] = "keyboard" /\ h[3][2] = "none"
        /\ h[4][1] = "mouse" /\ h[4][2] = "none"
        /\ h[5][1] = "shown" /\ h[5][2] = MaxWithout
        /\ h[6][1] = "screen" /\ h[6][2] = "LOADING"
    BY DEF ToLoading
  <1> HIDE DEF h
  <1>3. \A k \in DOMAIN h : k \in {1, 2, 3, 4, 5, 6}
    BY <1>1
  <1>4. {1, 2, 3, 4, 5, 6} \subseteq DOMAIN h
    BY <1>1
  <1>5. 2 \in 1 .. 5 - 1
    OBVIOUS
  <1>6. \A k \in DOMAIN h : h[k][1] = "shown" => \E j \in 1 .. k - 1 : h[j][1] = "clear chat"
    BY <1>2, <1>3, <1>5
  <1>7. /\ \A k \in DOMAIN h : h[k][1] = "screen" => h[k][2] = "LOADING"
        /\ \A k \in DOMAIN h : h[k][1] = "mouse" => h[k][2] = MouseOf["LOADING"]
        /\ \A k \in DOMAIN h : h[k][1] = "keyboard" => h[k][2] = KeyboardOf["LOADING"]
    BY <1>2, <1>3 DEF MouseOf, KeyboardOf
  <1>8. \A j, k \in DOMAIN h : h[j][1] = "append" /\ h[k][1] = "append" => j = k
    BY <1>2, <1>3
  <1>9. /\ \E k \in DOMAIN h : h[k][1] = "screen"
        /\ \E k \in DOMAIN h : h[k][1] = "keyboard"
        /\ \E k \in DOMAIN h : h[k][1] = "mouse"
    BY <1>2, <1>4
  <1>10. LeadsTo(h, "LOADING")
    BY <1>1, <1>6, <1>7, <1>8, <1>9 DEF LeadsTo
  <1> QED
    BY <1>10 DEF h

(* process_game_state *)
LEMMA ToGameLeads == LeadsTo(ToGame, "GAME")
  <1> DEFINE h == ToGame
  <1>1. h \in Seq(Statements) /\ DOMAIN h = 1 .. 5
    BY DEF ToGame, Statements, Screens, Mice, Keyboards
  <1>2. /\ h[1][1] = "clear chat"
        /\ h[2][1] = "append"
        /\ h[3][1] = "keyboard" /\ h[3][2] = "game"
        /\ h[4][1] = "special" /\ h[4][2] = "game"
        /\ h[5][1] = "screen" /\ h[5][2] = "GAME"
    BY DEF ToGame
  <1> HIDE DEF h
  <1>3. \A k \in DOMAIN h : k \in {1, 2, 3, 4, 5}
    BY <1>1
  <1>4. {1, 2, 3, 4, 5} \subseteq DOMAIN h
    BY <1>1
  <1>6. \A k \in DOMAIN h : h[k][1] = "shown" => \E j \in 1 .. k - 1 : h[j][1] = "clear chat"
    BY <1>2, <1>3
  <1>7. /\ \A k \in DOMAIN h : h[k][1] = "screen" => h[k][2] = "GAME"
        /\ \A k \in DOMAIN h : h[k][1] = "mouse" => h[k][2] = MouseOf["GAME"]
        /\ \A k \in DOMAIN h : h[k][1] = "keyboard" => h[k][2] = KeyboardOf["GAME"]
    BY <1>2, <1>3 DEF MouseOf, KeyboardOf
  <1>8. \A j, k \in DOMAIN h : h[j][1] = "append" /\ h[k][1] = "append" => j = k
    BY <1>2, <1>3
  <1>9. /\ \E k \in DOMAIN h : h[k][1] = "screen"
        /\ \E k \in DOMAIN h : h[k][1] = "keyboard"
    BY <1>2, <1>4
  <1>10. LeadsTo(h, "GAME")
    BY <1>1, <1>6, <1>7, <1>8, <1>9 DEF LeadsTo
  <1> QED
    BY <1>10 DEF h

(* process_game_end *)
LEMMA ToStatisticsLeads == LeadsTo(ToStatistics, "STATISTICS")
  <1> DEFINE h == ToStatistics
  <1>1. h \in Seq(Statements) /\ DOMAIN h = 1 .. 5
    BY DEF ToStatistics, Statements, Screens, Mice, Keyboards
  <1>2. /\ h[1][1] = "clear chat"
        /\ h[2][1] = "mouse" /\ h[2][2] = "statistics"
        /\ h[3][1] = "keyboard" /\ h[3][2] = "none"
        /\ h[4][1] = "special" /\ h[4][2] = "none"
        /\ h[5][1] = "screen" /\ h[5][2] = "STATISTICS"
    BY DEF ToStatistics
  <1> HIDE DEF h
  <1>3. \A k \in DOMAIN h : k \in {1, 2, 3, 4, 5}
    BY <1>1
  <1>4. {1, 2, 3, 4, 5} \subseteq DOMAIN h
    BY <1>1
  <1>6. \A k \in DOMAIN h : h[k][1] = "shown" => \E j \in 1 .. k - 1 : h[j][1] = "clear chat"
    BY <1>2, <1>3
  <1>7. /\ \A k \in DOMAIN h : h[k][1] = "screen" => h[k][2] = "STATISTICS"
        /\ \A k \in DOMAIN h : h[k][1] = "mouse" => h[k][2] = MouseOf["STATISTICS"]
        /\ \A k \in DOMAIN h : h[k][1] = "keyboard" => h[k][2] = KeyboardOf["STATISTICS"]
    BY <1>2, <1>3 DEF MouseOf, KeyboardOf
  <1>8. \A j, k \in DOMAIN h : h[j][1] = "append" /\ h[k][1] = "append" => j = k
    BY <1>2, <1>3
  <1>9. /\ \E k \in DOMAIN h : h[k][1] = "screen"
        /\ \E k \in DOMAIN h : h[k][1] = "keyboard"
        /\ \E k \in DOMAIN h : h[k][1] = "mouse"
    BY <1>2, <1>4
  <1>10. LeadsTo(h, "STATISTICS")
    BY <1>1, <1>6, <1>7, <1>8, <1>9 DEF LeadsTo
  <1> QED
    BY <1>10 DEF h

(* process_return_to_join *)
LEMMA ToJoinLeads == LeadsTo(ToJoin, "JOIN")
  <1> DEFINE h == ToJoin
  <1>1. h \in Seq(Statements) /\ DOMAIN h = 1 .. 7
    BY DEF ToJoin, Statements, Screens, Mice, Keyboards
  <1>2. /\ h[1][1] = "clear chat"
        /\ h[2][1] = "clear input"
        /\ h[3][1] = "shown" /\ h[3][2] = MaxWithout
        /\ h[4][1] = "append"
        /\ h[5][1] = "keyboard" /\ h[5][2] = "type"
        /\ h[6][1] = "mouse" /\ h[6][2] = "join"
        /\ h[7][1] = "screen" /\ h[7][2] = "JOIN"
    BY DEF ToJoin
  <1> HIDE DEF h
  <1>3. \A k \in DOMAIN h : k \in {1, 2, 3, 4, 5, 6, 7}
    BY <1>1
  <1>4. {1, 2, 3, 4, 5, 6, 7} \subseteq DOMAIN h
    BY <1>1
  <1>5. 1 \in 1 .. 3 - 1
    OBVIOUS
  <1>6. \A k \in DOMAIN h : h[k][1] = "shown" => \E j \in 1 .. k - 1 : h[j][1] = "clear chat"
    BY <1>2, <1>3, <1>5
  <1>7. /\ \A k \in DOMAIN h : h[k][1] = "screen" => h[k][2] = "JOIN"
        /\ \A k \in DOMAIN h : h[k][1] = "mouse" => h[k][2] = MouseOf["JOIN"]
        /\ \A k \in DOMAIN h : h[k][1] = "keyboard" => h[k][2] = KeyboardOf["JOIN"]
    BY <1>2, <1>3 DEF MouseOf, KeyboardOf
  <1>8. \A j, k \in DOMAIN h : h[j][1] = "append" /\ h[k][1] = "append" => j = k
    BY <1>2, <1>3
  <1>9. /\ \E k \in DOMAIN h : h[k][1] = "screen"
        /\ \E k \in DOMAIN h : h[k][1] = "keyboard"
        /\ \E k \in DOMAIN h : h[k][1] = "mouse"
    BY <1>2, <1>4
  <1>10. LeadsTo(h, "JOIN")
    BY <1>1, <1>6, <1>7, <1>8, <1>9 DEF LeadsTo
  <1> QED
    BY <1>10 DEF h


-----------------------------------------------------------------------------
(* The steps *)

(* What holds between two packets. *)
LEMMA AtRestOnCourse ==
    ASSUME IInv, recv = <<>>
    PROVE  /\ rend.mouse = MouseOf[rend.screen] /\ rend.keyboard = KeyboardOf[rend.screen]
           /\ channel # <<>> => Fits(Head(channel), rend.screen)
  <1>1. PICK scr \in [0 .. Len(channel) -> Screens] : Course(scr)
    BY DEF IInv, InCourse
  <1>2. scr[0] = rend.screen
    BY <1>1 DEF Course, Ends
  <1>3. rend.mouse = MouseOf[rend.screen] /\ rend.keyboard = KeyboardOf[rend.screen]
    BY <1>1, <1>2 DEF Course, Ends
  <1>4. ASSUME channel # <<>>
        PROVE  Fits(Head(channel), rend.screen)
    <2>1. 1 \in DOMAIN channel /\ Head(channel) = channel[1]
      BY <1>4 DEF IInv, TypeOK
    <2>2. Fits(channel[1], scr[1 - 1])
      BY <1>1, <2>1 DEF Course
    <2> QED
      BY <1>2, <2>1, <2>2
  <1> QED
    BY <1>3, <1>4

(* Receive takes a packet and calls its handler. *)
LEMMA ReceiveKeeps ==
    ASSUME IInv, Receive
    PROVE  IInv'
  <1> DEFINE p == Head(channel)
             scr == rend.screen
  <1>1. /\ recv = <<>> /\ channel # <<>> /\ channel' = Tail(channel) /\ lobbyData' \in BOOLEAN
        /\ UNCHANGED <<server, reply, loop, chatter, ServerVars, mail, rend, keys, text, even, main>>
    BY DEF Receive, ServerVars
  <1>w. WaitsFit'
    BY <1>1, ServerUnchanged DEF IInv
  <1>2. TypeOK /\ ThreadsOK /\ ChatFits /\ InCourse /\ scr \in Screens
    BY DEF IInv, TypeOK
  <1>3. rend.mouse = MouseOf[scr] /\ rend.keyboard = KeyboardOf[scr]
    BY <1>1, AtRestOnCourse
  <1>4. TypeOK'
    <2>1. channel \in Seq(Packets) /\ Len(channel) <= MaxInFlight /\ MaxInFlight \in Nat
      BY <1>2, ClientAssumption DEF TypeOK
    <2>2. channel' \in Seq(Packets) /\ Len(channel') <= MaxInFlight
      BY <1>1, <2>1
    <2> QED
      BY <1>1, <1>2, <2>2 DEF TypeOK
  <1>5. recv' \in Seq(Statements) => ThreadsOK'
    BY <1>1, <1>2 DEF ThreadsOK
  <1>6. ChatFits'
    BY <1>1, <1>2 DEF ChatFits
  <1>7. ASSUME NEW s \in Screens, LeadsTo(recv', s), s = After(scr, p),
               s = "GAME" => scr = "LOADING"
        PROVE  IInv'
    <2>1. Ends("screen", s)' /\ Ends("keyboard", KeyboardOf[s])'
      BY <1>7 DEF LeadsTo, Ends
    <2>2. Ends("mouse", MouseOf[s])'
      <3>1. \A k \in DOMAIN recv' : recv'[k][1] = "mouse" => recv'[k][2] = MouseOf[s]
        BY <1>7 DEF LeadsTo
      <3>2. CASE s = "GAME"
        <4>1. rend'.mouse = MouseOf[s]
          BY <1>1, <1>3, <1>7, <3>2 DEF MouseOf
        <4> QED
          BY <3>1, <4>1 DEF Ends
      <3>3. CASE s # "GAME"
        <4>1. \E k \in DOMAIN recv' : recv'[k][1] = "mouse"
          BY <1>7, <3>3 DEF LeadsTo
        <4> QED
          BY <3>1, <4>1 DEF Ends
      <3> QED
        BY <3>2, <3>3
    <2>3. InCourse'
      BY <1>1, <1>2, <1>7, <2>1, <2>2, CourseShifts
    <2>4. recv' \in Seq(Statements) /\ Once("append")' /\ WindowFits'
      BY <1>7 DEF LeadsTo, Once, WindowFits
    <2> QED
      BY <1>4, <1>5, <1>6, <1>w, <2>3, <2>4 DEF IInv
  <1>8. ASSUME recv' \in {<<>>, <<<<"append">>>>}, After(scr, p) = scr
        PROVE  IInv'
    <2>1. /\ recv' \in Seq(Statements)
          /\ \A k \in DOMAIN recv' : k = 1 /\ recv'[k][1] = "append"
      <3>1. CASE recv' = <<>>
        BY <3>1
      <3>2. CASE recv' = <<<<"append">>>>
        BY <3>2 DEF Statements
      <3> QED
        BY <1>8, <3>1, <3>2
    <2>2. Ends("screen", scr)' /\ Ends("mouse", MouseOf[scr])' /\ Ends("keyboard", KeyboardOf[scr])'
      BY <1>1, <1>3, <2>1 DEF Ends
    <2>3. InCourse'
      BY <1>1, <1>2, <1>8, <2>2, CourseShifts
    <2>4. Once("append")' /\ WindowFits'
      BY <2>1 DEF Once, WindowFits
    <2> QED
      BY <1>4, <1>5, <1>6, <1>w, <2>1, <2>3, <2>4 DEF IInv
  <1>9. p \in Packets
    BY <1>1, <1>2 DEF TypeOK
  <1>10. CASE recv' = Handler(p)
    <2>1. CASE p = "ACCEPT" /\ scr = "JOIN"
      BY <1>7, <1>10, <2>1, AcceptedLeads DEF Handler, After, Screens
    <2>2. CASE p = "LOBBY" /\ scr = "MENU"
      BY <1>7, <1>10, <2>2, ToLobbyLeads DEF Handler, After, Screens
    <2>3. CASE p = "GAME_READY" /\ scr = "LOBBY"
      BY <1>7, <1>10, <2>3, ToLoadingLeads DEF Handler, After, Screens
    <2>4. CASE p = "GAME_STATE" /\ scr = "LOADING"
      BY <1>7, <1>10, <2>4, ToGameLeads DEF Handler, After, Screens
    <2>5. CASE p = "GAME_END" /\ scr = "GAME"
      BY <1>7, <1>10, <2>5, ToStatisticsLeads DEF Handler, After, Screens
    <2>6. CASE p = "RETURN_TO_MENU" /\ scr = "STATISTICS"
      BY <1>7, <1>10, <2>6, ToMenuLeads DEF Handler, After, Screens
    <2>7. CASE p = "RETURN_TO_JOIN"
      BY <1>7, <1>10, <2>7, ToJoinLeads DEF Handler, After, Screens
    <2> HIDE DEF p, scr
    <2>8. CASE /\ ~(p = "ACCEPT" /\ scr = "JOIN") /\ ~(p = "LOBBY" /\ scr = "MENU")
               /\ ~(p = "GAME_READY" /\ scr = "LOBBY") /\ ~(p = "GAME_STATE" /\ scr = "LOADING")
               /\ ~(p = "GAME_END" /\ scr = "GAME")
               /\ ~(p = "RETURN_TO_MENU" /\ scr = "STATISTICS") /\ p # "RETURN_TO_JOIN"
      <3>1. After(scr, p) = scr
        BY <2>8 DEF After
      <3>2. Handler(p) \in {<<>>, <<<<"append">>>>}
        BY <2>8 DEF Handler, scr
      <3> QED
        BY <1>8, <1>10, <3>1, <3>2
    <2> QED
      BY <2>1, <2>2, <2>3, <2>4, <2>5, <2>6, <2>7, <2>8
  <1>11. CASE p = "CHAT" /\ recv' = <<>>
    BY <1>8, <1>11 DEF After
  <1> QED
    BY <1>10, <1>11 DEF Receive

(* A statement of a handler *)
LEMMA StatementKeeps ==
    ASSUME IInv, Statement
    PROVE  IInv'
  <1>1. WaitsFit'
    BY ServerUnchanged DEF IInv, Statement
  <1> QED
    BY <1>1, StatementTypes, OnceKept, ChatKept, StatementCourse DEF IInv

(* The main thread touches neither the handler nor rend_data. *)
LEMMA MainKeeps ==
    ASSUME IInv, UNCHANGED <<ServerVars, channel, recv, rend, lobbyData>>, even' \in BOOLEAN,
           mail' \in Mails, keys' \subseteq PaddleKeys \cup {"quit"},
           main' \in MainType, text' \in -1 .. MaxText, main'.at = "backspace" => text' >= 0,
           main'.at = "send" => main'.next # "backspace"
    PROVE  IInv'
  <1>1. TypeOK' /\ ThreadsOK'
    BY DEF IInv, TypeOK, ThreadsOK, ServerVars
  <1>2. ChatFits' /\ Once("append")' /\ WindowFits'
    BY DEF IInv, ChatFits, Once, WindowFits
  <1>3. InCourse' /\ WaitsFit'
    BY CourseKept, ServerUnchanged DEF IInv
  <1> QED
    BY <1>1, <1>2, <1>3 DEF IInv

(* A renderer that goes on with the chat leaves main a thread of its type *)
LEMMA DrawnKeeps ==
    ASSUME NEW m \in MainType, NEW n \in Int
    PROVE  /\ [m EXCEPT !.drawn = @ + 1, !.node = n] \in MainType
           /\ [m EXCEPT !.drawn = @ + 1, !.node = n].at = m.at
  <1>1. m.drawn \in Nat
    BY DEF MainType
  <1>2. m.drawn + 1 \in Nat
    BY <1>1
  <1> DEFINE d == m.drawn + 1
  <1>3. d \in Nat
    BY <1>2
  <1> HIDE DEF d
  <1>4. [m EXCEPT !.drawn = d, !.node = n] \in MainType
    BY <1>3 DEF MainType
  <1>5. [m EXCEPT !.drawn = d, !.node = n].at = m.at
    BY DEF MainType
  <1> QED
    BY <1>4, <1>5 DEF d

(* An event or a step of the main thread *)
LEMMA MainStepKeeps ==
    ASSUME IInv, Event \/ Callback
    PROVE  IInv'
  <1>1. /\ main \in MainType /\ main.packet \in Mails /\ main.next \in Places /\ main.drawn \in Nat
        /\ text \in -1 .. MaxText /\ MaxText \in Nat /\ mail \in Mails /\ even \in BOOLEAN
        /\ keys \subseteq PaddleKeys \cup {"quit"} /\ (main.at = "backspace" => text >= 0)
        /\ rend.chat \in Nat /\ (main.at = "send" => main.next # "backspace")
    BY ClientAssumption DEF IInv, TypeOK, ThreadsOK, MainType, RendType
  <1>2. ASSUME NEW place \in Places
        PROVE  /\ At(place) \in MainType /\ At(place).at = place
               /\ \A m \in Mails : /\ Sending(m, place) \in MainType /\ Sending(m, place).at = "send"
                                   /\ Sending(m, place).next = place
    <2>1. At(place) \in MainType /\ At(place).at = place
      BY DEF At, MainType, NULL, Mails
    <2>2. "send" \in Places /\ At("send") \in MainType /\ At("send").at = "send"
      BY DEF At, MainType, NULL, Mails, Places
    <2> QED
      BY <2>1, <2>2 DEF Sending, MainType
  <1>3. Chat \in MainType /\ Chat.at = "chat"
    <2>1. "chat" \in Places /\ At("chat") \in MainType /\ At("chat").at = "chat"
      BY DEF At, MainType, NULL, Mails, Places
    <2> QED
      BY <2>1 DEF Chat, MainType, NULL
  <1>4. ASSUME NEW m, Go(m), m \in MainType, m.at = "backspace" => text' >= 0,
               m.at = "send" => m.next # "backspace",
               mail' \in Mails, keys' \subseteq PaddleKeys \cup {"quit"}, text' \in -1 .. MaxText
        PROVE  IInv'
    BY <1>1, <1>4, MainKeeps DEF Go
  <1>5. CASE TypeCharacter
    BY <1>1, <1>2, <1>4, <1>5 DEF TypeCharacter, Places
  <1>6. CASE Backspace
    BY <1>1, <1>2, <1>4, <1>6 DEF Backspace, Places
  <1>7. CASE ClickQuit
    BY <1>1, <1>2, <1>4, <1>7 DEF ClickQuit, Places
  <1>8. CASE ClickSend
    BY <1>1, <1>2, <1>4, <1>8 DEF ClickSend, Mails, Places
  <1>9. ASSUME NEW k \in PaddleKeys, Press(k) \/ Release(k)
        PROVE  IInv'
    BY <1>1, <1>2, <1>4, <1>9 DEF Press, Release, Places
  <1>10. CASE Erase
    BY <1>1, <1>2, <1>4, <1>10 DEF Erase, Places
  <1>11. CASE ClearSent
    BY <1>1, <1>2, <1>4, <1>11 DEF ClearSent, Places
  <1>12. CASE FillMail
    <2>1. CASE main.next = "chat"
      BY <1>1, <1>3, <1>4, <1>12, <2>1 DEF FillMail
    <2>2. CASE main.next # "chat"
      <3>1. mail' = main.packet /\ UNCHANGED <<keys, text>> /\ Go(At(main.next))
        BY <1>12, <2>2 DEF FillMail
      <3>2. /\ At(main.next) \in MainType /\ At(main.next).at = main.next
            /\ At(main.next).next = main.next /\ main.next # "backspace"
        BY <1>1, <1>2, <1>12 DEF FillMail, At
      <3>3. At(main.next).at = "send" => At(main.next).next # "backspace"
        BY <3>2
      <3> QED
        BY <1>1, <1>4, <3>1, <3>2, <3>3
    <2> QED
      BY <2>1, <2>2
  <1>13. CASE Display
    BY <1>1, <1>2, <1>3, <1>4, <1>13 DEF Display, Mails, Places
  <1>14. CASE DrawMessage
    <2>1. main.at = "chat" /\ UNCHANGED <<mail, keys, text>>
      BY <1>14 DEF DrawMessage
    <2>2. CASE Go(At("crashed"))
      BY <1>1, <1>2, <1>4, <2>1, <2>2 DEF Places
    <2>3. ASSUME NEW n \in {Freed, NULL, main.node + 1}, Go([main EXCEPT !.drawn = @ + 1, !.node = n])
          PROVE  IInv'
      <3>1. main.node \in Int /\ n \in Int
        BY <1>1 DEF MainType, NULL, Freed
      <3>2. /\ [main EXCEPT !.drawn = @ + 1, !.node = n] \in MainType
            /\ [main EXCEPT !.drawn = @ + 1, !.node = n].at = main.at
        BY <1>1, <3>1, DrawnKeeps
      <3> QED
        BY <1>1, <1>4, <2>1, <2>3, <3>2
    <2>4. \/ Go(At("crashed"))
          \/ \E n \in {Freed, NULL, main.node + 1} : Go([main EXCEPT !.drawn = @ + 1, !.node = n])
      BY <1>14 DEF DrawMessage
    <2> QED
      BY <2>2, <2>3, <2>4
  <1>15. CASE Gameloop
    <2>1. /\ main' \in MainType /\ main'.at # "backspace"
          /\ main'.at = "send" => main'.next # "backspace"
      BY <1>1, <1>2, <1>15 DEF Gameloop, Mails, Places
    <2>2. UNCHANGED <<ServerVars, channel, recv, rend, lobbyData, mail, text>>
      BY <1>15 DEF Gameloop
    <2>3. keys' \subseteq PaddleKeys \cup {"quit"} /\ even' \in BOOLEAN
      BY <1>1, <1>15 DEF Gameloop
    <2> QED
      BY <1>1, <2>1, <2>2, <2>3, MainKeeps
  <1> QED
    BY <1>5, <1>6, <1>7, <1>8, <1>9, <1>10, <1>11, <1>12, <1>13, <1>14, <1>15 DEF Event, Callback

(* What the send thread and the threads of the server change *)
LEMMA ServerKeeps ==
    ASSUME IInv, UNCHANGED <<lobbyData, recv, rend, keys, text, even>>, mail' \in Mails,
           \/ UNCHANGED main
           \/ main' = At("exited"),
           server' \in Stages, reply' \in Packets \cup {"none", "OTHERS", "MORE", "SPIN"},
           loop' \in Packets \cup {"none", "dead"}, chatter' \in BOOLEAN, WaitsFit',
           \/ UNCHANGED channel /\ \A s \in Screens : Ahead(s) => Ahead(s)'
           \/ \E p \in Packets :
                 /\ Put(p)
                 /\ \A s \in Screens :
                       Ahead(s) => Fits(p, s) /\ \E t \in Screens : t = After(s, p) /\ Ahead(t)'
    PROVE  IInv'
  <1>1. main' \in MainType /\ (main'.at = "backspace" => text >= 0)
        /\ (main'.at = "send" => main'.next # "backspace")
    BY DEF IInv, ThreadsOK, At, MainType, Places, Mails, NULL
  <1>2. /\ channel \in Seq(Packets) /\ Len(channel) <= MaxInFlight
        /\ MaxInFlight \in Nat
    BY ClientAssumption DEF IInv, TypeOK
  <1>3. channel' \in Seq(Packets) /\ Len(channel') <= MaxInFlight /\ InCourse'
    <2>1. CASE UNCHANGED channel /\ \A s \in Screens : Ahead(s) => Ahead(s)'
      BY <1>2, <2>1, CourseKept DEF IInv
    <2>2. ASSUME NEW p \in Packets, Put(p),
                 \A s \in Screens :
                    Ahead(s) => Fits(p, s) /\ \E t \in Screens : t = After(s, p) /\ Ahead(t)'
          PROVE  channel' \in Seq(Packets) /\ Len(channel') <= MaxInFlight /\ InCourse'
      <3>1. Len(channel) < MaxInFlight /\ channel' = Append(channel, p)
        BY <2>2 DEF Put
      <3>2. InCourse'
        BY <2>2, <3>1, CourseGrows DEF IInv
      <3> QED
        BY <1>2, <3>1, <3>2
    <2> QED
      BY <2>1, <2>2
  <1>4. TypeOK' /\ ThreadsOK'
    BY <1>1, <1>3 DEF IInv, TypeOK, ThreadsOK
  <1>5. ChatFits' /\ Once("append")' /\ WindowFits'
    BY DEF IInv, ChatFits, Once, WindowFits
  <1> QED
    BY <1>3, <1>4, <1>5 DEF IInv

(* The connection ends. *)
LEMMA DisconnectKeeps ==
    ASSUME IInv, ServerDisconnected
    PROVE  IInv'
  <1>1. UNCHANGED <<ServerVars, server, reply, loop, chatter>>
    BY DEF ServerDisconnected, ServerVars
  <1>2. WaitsFit' /\ \A s \in Screens : Ahead(s) => Ahead(s)'
    BY <1>1, ServerUnchanged DEF IInv
  <1> QED
    BY <1>1, <1>2, ServerKeeps DEF ServerDisconnected, IInv, TypeOK

(* What a server's record of the client, and what its threads are about to *)
(* send, say of its screen                                                 *)
LEMMA ScreensAre ==
    /\ ScreensOf["JOIN"] = IF reply = "RETURN_TO_JOIN" THEN Screens ELSE {"JOIN"}
    /\ ScreensOf["MENU"] = IF reply = "ACCEPT" THEN {"JOIN"} ELSE InMenu
    /\ ScreensOf["LOBBY"] = InMenu
    /\ ScreensOf["LOST"] = Behind
    /\ ScreensOf["LOADING"] = Behind \cup {"LOADING"}
    /\ ScreensOf["READY"] = Behind \cup {"LOADING"}
    /\ ScreensOf["STARTED"] = Behind \cup {"LOADING"}
    /\ ScreensOf["GAME"] = Behind \cup {"GAME"} \cup (IF loop = "GAME_STATE" THEN {"LOADING"} ELSE {})
    /\ ScreensOf["STATISTICS"] = Behind \cup (IF loop = "GAME_END" THEN {"GAME"} ELSE {"STATISTICS"})
    /\ ScreensOf["gone"] = Screens
  BY DEF ScreensOf

(* ... and what they say of it after a step *)
LEMMA ScreensAreNext ==
    /\ ScreensOf'["JOIN"] = IF reply' = "RETURN_TO_JOIN" THEN Screens ELSE {"JOIN"}
    /\ ScreensOf'["MENU"] = IF reply' = "ACCEPT" THEN {"JOIN"} ELSE InMenu'
    /\ ScreensOf'["LOBBY"] = InMenu'
    /\ ScreensOf'["LOST"] = Behind
    /\ ScreensOf'["LOADING"] = Behind \cup {"LOADING"}
    /\ ScreensOf'["READY"] = Behind \cup {"LOADING"}
    /\ ScreensOf'["STARTED"] = Behind \cup {"LOADING"}
    /\ ScreensOf'["GAME"] = Behind \cup {"GAME"} \cup (IF loop' = "GAME_STATE" THEN {"LOADING"} ELSE {})
    /\ ScreensOf'["STATISTICS"] = Behind \cup (IF loop' = "GAME_END" THEN {"GAME"} ELSE {"STATISTICS"})
    /\ ScreensOf'["gone"] = Screens
  BY DEF ScreensOf

(* What the receive thread of the server sends *)
LEMMA SendReplyKeeps ==
    ASSUME IInv, SendReply
    PROVE  IInv'
  <1>1. /\ UNCHANGED <<lobbyData, recv, rend, keys, text, even, main, mail, loop, chatter>>
        /\ mail' \in Mails /\ server \in Stages /\ reply \in Packets \cup {"none", "OTHERS", "MORE", "SPIN"}
        /\ loop \in Packets \cup {"none", "dead"} /\ chatter' \in BOOLEAN /\ WaitsFit
    BY DEF SendReply, ServerStep, NextPlace, ClientVars, IInv, TypeOK, Mails
  <1>2. \/ /\ Put("ACCEPT") /\ reply = "ACCEPT" /\ reply' = "none"
           /\ server' = server /\ server # "gone"
        \/ /\ Put("INFO") /\ reply = "INFO" /\ reply' = "none"
           /\ server' = server /\ server # "gone"
        \/ /\ Put("RETURN_TO_MENU") /\ reply = "RETURN_TO_MENU" /\ reply' = "none"
           /\ server' = server /\ server # "gone"
        \/ /\ Put("RETURN_TO_JOIN") /\ reply = "RETURN_TO_JOIN" /\ reply' = "none"
           /\ server' = server /\ server # "gone"
        \/ /\ Put("ACCEPT_ERROR") /\ reply = "ACCEPT_ERROR" /\ reply' = "INFO"
           /\ server' = server /\ server # "gone"
        \/ /\ Put("CHAT") /\ reply = "CHAT" /\ reply' \in {"MORE", "none"}
           /\ server = "LOBBY" /\ server' = server
        \/ /\ Put("CHAT") /\ reply = "CHAT" /\ reply' = "none"
           /\ server # "LOBBY" /\ server' = "gone"
        \/ /\ UNCHANGED channel /\ reply \in {"OTHERS", "MORE"} /\ reply' \in {"CHAT", "none"}
           /\ server = "LOBBY" /\ server' = server
        \/ /\ UNCHANGED channel /\ reply \in {"OTHERS", "MORE"} /\ reply' = "none"
           /\ server # "LOBBY" /\ server' = "gone"
        \/ /\ UNCHANGED channel /\ reply = "SPIN" /\ reply' = "none"
           /\ server' = "LOBBY" /\ server # "gone"
    BY DEF SendReply, ServerStep, NextPlace
  <1>3. CASE /\ Put("ACCEPT") /\ reply = "ACCEPT" /\ reply' = "none"
            /\ server' = server /\ server # "gone"
    <2>1. /\ server' \in Stages /\ reply' \in Packets \cup {"none", "OTHERS", "MORE", "SPIN"}
          /\ loop' \in Packets \cup {"none", "dead"} /\ WaitsFit'
      BY <1>1, <1>3 DEF WaitsFit, RepliesIn, Talks, Outlived, Stages, Screens, Packets
    <2>2. \A s \in Screens :
             Ahead(s) => Fits("ACCEPT", s) /\ \E t \in Screens : t = After(s, "ACCEPT") /\ Ahead(t)'
      BY <1>1, <1>3, ScreensAre, ScreensAreNext DEF Ahead, WaitsFit, RepliesIn, Talks, Outlived, InMenu, Behind, Stale, Fits, After, Screens, Stages
    <2> QED
      BY <1>1, <1>3, <2>1, <2>2, ServerKeeps DEF Packets
  <1>4. CASE /\ Put("INFO") /\ reply = "INFO" /\ reply' = "none"
            /\ server' = server /\ server # "gone"
    <2>1. /\ server' \in Stages /\ reply' \in Packets \cup {"none", "OTHERS", "MORE", "SPIN"}
          /\ loop' \in Packets \cup {"none", "dead"} /\ WaitsFit'
      BY <1>1, <1>4 DEF WaitsFit, RepliesIn, Talks, Outlived, Stages, Screens, Packets
    <2>2. \A s \in Screens :
             Ahead(s) => Fits("INFO", s) /\ \E t \in Screens : t = After(s, "INFO") /\ Ahead(t)'
      BY <1>1, <1>4, ScreensAre, ScreensAreNext DEF Ahead, WaitsFit, RepliesIn, Talks, Outlived, InMenu, Behind, Stale, Fits, After, Screens, Stages
    <2> QED
      BY <1>1, <1>4, <2>1, <2>2, ServerKeeps DEF Packets
  <1>5. CASE /\ Put("RETURN_TO_MENU") /\ reply = "RETURN_TO_MENU" /\ reply' = "none"
            /\ server' = server /\ server # "gone"
    <2>1. /\ server' \in Stages /\ reply' \in Packets \cup {"none", "OTHERS", "MORE", "SPIN"}
          /\ loop' \in Packets \cup {"none", "dead"} /\ WaitsFit'
      BY <1>1, <1>5 DEF WaitsFit, RepliesIn, Talks, Outlived, Stages, Screens, Packets
    <2>2. \A s \in Screens :
             Ahead(s) => Fits("RETURN_TO_MENU", s) /\ \E t \in Screens : t = After(s, "RETURN_TO_MENU") /\ Ahead(t)'
      BY <1>1, <1>5, ScreensAre, ScreensAreNext DEF Ahead, WaitsFit, RepliesIn, Talks, Outlived, InMenu, Behind, Stale, Fits, After, Screens, Stages
    <2> QED
      BY <1>1, <1>5, <2>1, <2>2, ServerKeeps DEF Packets
  <1>6. CASE /\ Put("RETURN_TO_JOIN") /\ reply = "RETURN_TO_JOIN" /\ reply' = "none"
            /\ server' = server /\ server # "gone"
    <2>1. /\ server' \in Stages /\ reply' \in Packets \cup {"none", "OTHERS", "MORE", "SPIN"}
          /\ loop' \in Packets \cup {"none", "dead"} /\ WaitsFit'
      BY <1>1, <1>6 DEF WaitsFit, RepliesIn, Talks, Outlived, Stages, Screens, Packets
    <2>2. \A s \in Screens :
             Ahead(s) => Fits("RETURN_TO_JOIN", s) /\ \E t \in Screens : t = After(s, "RETURN_TO_JOIN") /\ Ahead(t)'
      BY <1>1, <1>6, ScreensAre, ScreensAreNext DEF Ahead, WaitsFit, RepliesIn, Talks, Outlived, InMenu, Behind, Stale, Fits, After, Screens, Stages
    <2> QED
      BY <1>1, <1>6, <2>1, <2>2, ServerKeeps DEF Packets
  <1>7. CASE /\ Put("ACCEPT_ERROR") /\ reply = "ACCEPT_ERROR" /\ reply' = "INFO"
            /\ server' = server /\ server # "gone"
    <2>1. /\ server' \in Stages /\ reply' \in Packets \cup {"none", "OTHERS", "MORE", "SPIN"}
          /\ loop' \in Packets \cup {"none", "dead"} /\ WaitsFit'
      BY <1>1, <1>7 DEF WaitsFit, RepliesIn, Talks, Outlived, Stages, Screens, Packets
    <2>2. \A s \in Screens :
             Ahead(s) => Fits("ACCEPT_ERROR", s) /\ \E t \in Screens : t = After(s, "ACCEPT_ERROR") /\ Ahead(t)'
      BY <1>1, <1>7, ScreensAre, ScreensAreNext DEF Ahead, WaitsFit, RepliesIn, Talks, Outlived, InMenu, Behind, Stale, Fits, After, Screens, Stages
    <2> QED
      BY <1>1, <1>7, <2>1, <2>2, ServerKeeps DEF Packets
  <1>8. CASE /\ Put("CHAT") /\ reply = "CHAT" /\ reply' \in {"MORE", "none"}
            /\ server = "LOBBY" /\ server' = server
    <2>1. /\ server' \in Stages /\ reply' \in Packets \cup {"none", "OTHERS", "MORE", "SPIN"}
          /\ loop' \in Packets \cup {"none", "dead"} /\ WaitsFit'
      BY <1>1, <1>8 DEF WaitsFit, RepliesIn, Talks, Outlived, Stages, Screens, Packets
    <2>2. \A s \in Screens :
             Ahead(s) => Fits("CHAT", s) /\ \E t \in Screens : t = After(s, "CHAT") /\ Ahead(t)'
      BY <1>1, <1>8, ScreensAre, ScreensAreNext DEF Ahead, WaitsFit, RepliesIn, Talks, Outlived, InMenu, Behind, Stale, Fits, After, Screens, Stages
    <2> QED
      BY <1>1, <1>8, <2>1, <2>2, ServerKeeps DEF Packets
  <1>9. CASE /\ Put("CHAT") /\ reply = "CHAT" /\ reply' = "none"
            /\ server # "LOBBY" /\ server' = "gone"
    <2>1. /\ server' \in Stages /\ reply' \in Packets \cup {"none", "OTHERS", "MORE", "SPIN"}
          /\ loop' \in Packets \cup {"none", "dead"} /\ WaitsFit'
      BY <1>1, <1>9 DEF WaitsFit, RepliesIn, Talks, Outlived, Stages, Screens, Packets
    <2>2. \A s \in Screens :
             Ahead(s) => Fits("CHAT", s) /\ \E t \in Screens : t = After(s, "CHAT") /\ Ahead(t)'
      BY <1>1, <1>9, ScreensAre, ScreensAreNext DEF Ahead, WaitsFit, RepliesIn, Talks, Outlived, InMenu, Behind, Stale, Fits, After, Screens, Stages
    <2> QED
      BY <1>1, <1>9, <2>1, <2>2, ServerKeeps DEF Packets
  <1>10. CASE /\ UNCHANGED channel /\ reply \in {"OTHERS", "MORE"} /\ reply' \in {"CHAT", "none"}
            /\ server = "LOBBY" /\ server' = server
    <2>1. /\ server' \in Stages /\ reply' \in Packets \cup {"none", "OTHERS", "MORE", "SPIN"}
          /\ loop' \in Packets \cup {"none", "dead"} /\ WaitsFit'
      BY <1>1, <1>10 DEF WaitsFit, RepliesIn, Talks, Outlived, Stages, Screens, Packets
    <2>2. \A s \in Screens : Ahead(s) => Ahead(s)'
      BY <1>1, <1>10, ScreensAre, ScreensAreNext DEF Ahead, WaitsFit, RepliesIn, Talks, Outlived, InMenu, Behind, Stale, Fits, After, Screens, Stages
    <2> QED
      BY <1>1, <1>10, <2>1, <2>2, ServerKeeps
  <1>11. CASE /\ UNCHANGED channel /\ reply \in {"OTHERS", "MORE"} /\ reply' = "none"
            /\ server # "LOBBY" /\ server' = "gone"
    <2>1. /\ server' \in Stages /\ reply' \in Packets \cup {"none", "OTHERS", "MORE", "SPIN"}
          /\ loop' \in Packets \cup {"none", "dead"} /\ WaitsFit'
      BY <1>1, <1>11 DEF WaitsFit, RepliesIn, Talks, Outlived, Stages, Screens, Packets
    <2>2. \A s \in Screens : Ahead(s) => Ahead(s)'
      BY <1>1, <1>11, ScreensAre, ScreensAreNext DEF Ahead, WaitsFit, RepliesIn, Talks, Outlived, InMenu, Behind, Stale, Fits, After, Screens, Stages
    <2> QED
      BY <1>1, <1>11, <2>1, <2>2, ServerKeeps
  <1>12. CASE /\ UNCHANGED channel /\ reply = "SPIN" /\ reply' = "none"
            /\ server' = "LOBBY" /\ server # "gone"
    <2>1. /\ server' \in Stages /\ reply' \in Packets \cup {"none", "OTHERS", "MORE", "SPIN"}
          /\ loop' \in Packets \cup {"none", "dead"} /\ WaitsFit'
      BY <1>1, <1>12 DEF WaitsFit, RepliesIn, Talks, Outlived, Stages, Screens, Packets
    <2>2. \A s \in Screens : Ahead(s) => Ahead(s)'
      BY <1>1, <1>12, ScreensAre, ScreensAreNext DEF Ahead, WaitsFit, RepliesIn, Talks, Outlived, InMenu, Behind, Stale, Fits, After, Screens, Stages
    <2> QED
      BY <1>1, <1>12, <2>1, <2>2, ServerKeeps
  <1> QED
    BY <1>2, <1>3, <1>4, <1>5, <1>6, <1>7, <1>8, <1>9, <1>10, <1>11, <1>12

(* What the gameloop announces, and the games it starts and ends *)
LEMMA LoopKeeps ==
    ASSUME IInv, Announce \/ StartGame \/ EndGame
    PROVE  IInv'
  <1>1. /\ UNCHANGED <<lobbyData, recv, rend, keys, text, even, main, mail, reply, chatter, channel>>
        /\ mail' \in Mails /\ server \in Stages /\ reply \in Packets \cup {"none", "OTHERS", "MORE", "SPIN"}
        /\ loop \in Packets \cup {"none", "dead"} /\ chatter' \in BOOLEAN /\ WaitsFit
    BY DEF Announce, StartGame, EndGame, LoopStep, ServerStep, ClientVars, IInv, TypeOK, Mails
  <1>2. \/ loop = "none" /\ server = "LOBBY" /\ server' = server /\ loop' = "LOBBY"
        \/ loop = "none" /\ server \in {"LOADING", "READY"} /\ server' = server /\ loop' = "GAME_READY"
        \/ loop = "none" /\ server = "READY" /\ server' = "STARTED" /\ loop' = loop
        \/ loop = "none" /\ server \in {"STARTED", "GAME"} /\ server' = "GAME" /\ loop' = "GAME_STATE"
        \/ loop = "none" /\ server = "LOBBY" /\ server' \in {"LOADING", "LOST"} /\ loop' = loop
        \/ loop = "none" /\ server = "GAME" /\ server' = "STATISTICS" /\ loop' = "GAME_END"
        \/ loop = "none" /\ server = "STATISTICS" /\ server' = "MENU" /\ loop' = "RETURN_TO_MENU"
    BY DEF Announce, StartGame, EndGame, LoopStep, ServerStep
  <1>3. CASE loop = "none" /\ server = "LOBBY" /\ server' = server /\ loop' = "LOBBY"
    <2>1. /\ server' \in Stages /\ reply' \in Packets \cup {"none", "OTHERS", "MORE", "SPIN"}
          /\ loop' \in Packets \cup {"none", "dead"} /\ WaitsFit'
      BY <1>1, <1>3 DEF WaitsFit, RepliesIn, Talks, Outlived, Stages, Screens, Packets
    <2>2. \A s \in Screens : Ahead(s) => Ahead(s)'
      BY <1>1, <1>3, ScreensAre, ScreensAreNext DEF Ahead, WaitsFit, RepliesIn, Talks, Outlived, InMenu, Behind, Stale, Fits, After, Screens, Stages
    <2> QED
      BY <1>1, <1>3, <2>1, <2>2, ServerKeeps
  <1>4. CASE loop = "none" /\ server \in {"LOADING", "READY"} /\ server' = server /\ loop' = "GAME_READY"
    <2>1. /\ server' \in Stages /\ reply' \in Packets \cup {"none", "OTHERS", "MORE", "SPIN"}
          /\ loop' \in Packets \cup {"none", "dead"} /\ WaitsFit'
      BY <1>1, <1>4 DEF WaitsFit, RepliesIn, Talks, Outlived, Stages, Screens, Packets
    <2>2. \A s \in Screens : Ahead(s) => Ahead(s)'
      BY <1>1, <1>4, ScreensAre, ScreensAreNext DEF Ahead, WaitsFit, RepliesIn, Talks, Outlived, InMenu, Behind, Stale, Fits, After, Screens, Stages
    <2> QED
      BY <1>1, <1>4, <2>1, <2>2, ServerKeeps
  <1>5. CASE loop = "none" /\ server = "READY" /\ server' = "STARTED" /\ loop' = loop
    <2>1. /\ server' \in Stages /\ reply' \in Packets \cup {"none", "OTHERS", "MORE", "SPIN"}
          /\ loop' \in Packets \cup {"none", "dead"} /\ WaitsFit'
      BY <1>1, <1>5 DEF WaitsFit, RepliesIn, Talks, Outlived, Stages, Screens, Packets
    <2>2. \A s \in Screens : Ahead(s) => Ahead(s)'
      BY <1>1, <1>5, ScreensAre, ScreensAreNext DEF Ahead, WaitsFit, RepliesIn, Talks, Outlived, InMenu, Behind, Stale, Fits, After, Screens, Stages
    <2> QED
      BY <1>1, <1>5, <2>1, <2>2, ServerKeeps
  <1>6. CASE loop = "none" /\ server \in {"STARTED", "GAME"} /\ server' = "GAME" /\ loop' = "GAME_STATE"
    <2>1. /\ server' \in Stages /\ reply' \in Packets \cup {"none", "OTHERS", "MORE", "SPIN"}
          /\ loop' \in Packets \cup {"none", "dead"} /\ WaitsFit'
      BY <1>1, <1>6 DEF WaitsFit, RepliesIn, Talks, Outlived, Stages, Screens, Packets
    <2>2. \A s \in Screens : Ahead(s) => Ahead(s)'
      BY <1>1, <1>6, ScreensAre, ScreensAreNext DEF Ahead, WaitsFit, RepliesIn, Talks, Outlived, InMenu, Behind, Stale, Fits, After, Screens, Stages
    <2> QED
      BY <1>1, <1>6, <2>1, <2>2, ServerKeeps
  <1>7. CASE loop = "none" /\ server = "LOBBY" /\ server' \in {"LOADING", "LOST"} /\ loop' = loop
    <2>1. /\ server' \in Stages /\ reply' \in Packets \cup {"none", "OTHERS", "MORE", "SPIN"}
          /\ loop' \in Packets \cup {"none", "dead"} /\ WaitsFit'
      BY <1>1, <1>7 DEF WaitsFit, RepliesIn, Talks, Outlived, Stages, Screens, Packets
    <2>2. \A s \in Screens : Ahead(s) => Ahead(s)'
      BY <1>1, <1>7, ScreensAre, ScreensAreNext DEF Ahead, WaitsFit, RepliesIn, Talks, Outlived, InMenu, Behind, Stale, Fits, After, Screens, Stages
    <2> QED
      BY <1>1, <1>7, <2>1, <2>2, ServerKeeps
  <1>8. CASE loop = "none" /\ server = "GAME" /\ server' = "STATISTICS" /\ loop' = "GAME_END"
    <2>1. /\ server' \in Stages /\ reply' \in Packets \cup {"none", "OTHERS", "MORE", "SPIN"}
          /\ loop' \in Packets \cup {"none", "dead"} /\ WaitsFit'
      BY <1>1, <1>8 DEF WaitsFit, RepliesIn, Talks, Outlived, Stages, Screens, Packets
    <2>2. \A s \in Screens : Ahead(s) => Ahead(s)'
      BY <1>1, <1>8, ScreensAre, ScreensAreNext DEF Ahead, WaitsFit, RepliesIn, Talks, Outlived, InMenu, Behind, Stale, Fits, After, Screens, Stages
    <2> QED
      BY <1>1, <1>8, <2>1, <2>2, ServerKeeps
  <1>9. CASE loop = "none" /\ server = "STATISTICS" /\ server' = "MENU" /\ loop' = "RETURN_TO_MENU"
    <2>1. /\ server' \in Stages /\ reply' \in Packets \cup {"none", "OTHERS", "MORE", "SPIN"}
          /\ loop' \in Packets \cup {"none", "dead"} /\ WaitsFit'
      BY <1>1, <1>9 DEF WaitsFit, RepliesIn, Talks, Outlived, Stages, Screens, Packets
    <2>2. \A s \in Screens : Ahead(s) => Ahead(s)'
      BY <1>1, <1>9, ScreensAre, ScreensAreNext DEF Ahead, WaitsFit, RepliesIn, Talks, Outlived, InMenu, Behind, Stale, Fits, After, Screens, Stages
    <2> QED
      BY <1>1, <1>9, <2>1, <2>2, ServerKeeps
  <1> QED
    BY <1>2, <1>3, <1>4, <1>5, <1>6, <1>7, <1>8, <1>9

(* What the gameloop sends *)
LEMMA SendPacketKeeps ==
    ASSUME IInv, SendPacket
    PROVE  IInv'
  <1>1. /\ UNCHANGED <<lobbyData, recv, rend, keys, text, even, main, mail, server, reply, chatter>>
        /\ mail' \in Mails /\ server \in Stages /\ reply \in Packets \cup {"none", "OTHERS", "MORE", "SPIN"}
        /\ loop \in Packets \cup {"none", "dead"} /\ chatter' \in BOOLEAN /\ WaitsFit
    BY DEF SendPacket, ServerStep, ClientVars, IInv, TypeOK, Mails
  <1>2. \/ UNCHANGED channel /\ loop = "LOBBY" /\ loop' = "dead" /\ server' = server
        \/ UNCHANGED channel /\ loop = "GAME_END" /\ server # "STATISTICS" /\ loop' = "dead" /\ server' = server
        \/ /\ Put("LOBBY") /\ loop = "LOBBY" /\ loop' = "none"
           /\ server' = server /\ server = "LOBBY"
        \/ /\ Put("GAME_END") /\ loop = "GAME_END" /\ loop' \in {"none", "INFO"}
           /\ server' = server /\ server = "STATISTICS"
        \/ /\ Put("GAME_READY") /\ loop = "GAME_READY" /\ loop' = "none"
           /\ server' = server /\ server # "gone"
        \/ /\ Put("GAME_STATE") /\ loop = "GAME_STATE" /\ loop' = "none"
           /\ server' = server /\ server # "gone"
        \/ /\ Put("INFO") /\ loop = "INFO" /\ loop' = "none"
           /\ server' = server /\ server # "gone"
        \/ /\ Put("RETURN_TO_MENU") /\ loop = "RETURN_TO_MENU" /\ loop' = "none"
           /\ server' = server /\ server # "gone"
    <2>1. loop \in {"none", "dead", "LOBBY", "GAME_READY", "GAME_STATE", "GAME_END", "INFO", "RETURN_TO_MENU"}
      BY <1>1 DEF WaitsFit, Packets
    <2>2. CASE loop \in {"LOBBY", "GAME_END"}
      BY <2>2 DEF SendPacket, ServerStep
    <2>3. CASE loop \in {"GAME_READY", "GAME_STATE", "INFO", "RETURN_TO_MENU"}
      BY <2>3 DEF SendPacket, ServerStep
    <2> QED
      BY <2>1, <2>2, <2>3 DEF SendPacket
  <1>3. CASE UNCHANGED channel /\ loop = "LOBBY" /\ loop' = "dead" /\ server' = server
    <2>1. /\ server' \in Stages /\ reply' \in Packets \cup {"none", "OTHERS", "MORE", "SPIN"}
          /\ loop' \in Packets \cup {"none", "dead"} /\ WaitsFit'
      BY <1>1, <1>3 DEF WaitsFit, RepliesIn, Talks, Outlived, Stages, Screens, Packets
    <2>2. \A s \in Screens : Ahead(s) => Ahead(s)'
      BY <1>1, <1>3, ScreensAre, ScreensAreNext DEF Ahead, WaitsFit, RepliesIn, Talks, Outlived, InMenu, Behind, Stale, Fits, After, Screens, Stages
    <2> QED
      BY <1>1, <1>3, <2>1, <2>2, ServerKeeps
  <1>4. CASE UNCHANGED channel /\ loop = "GAME_END" /\ server # "STATISTICS" /\ loop' = "dead" /\ server' = server
    <2>1. /\ server' \in Stages /\ reply' \in Packets \cup {"none", "OTHERS", "MORE", "SPIN"}
          /\ loop' \in Packets \cup {"none", "dead"} /\ WaitsFit'
      BY <1>1, <1>4 DEF WaitsFit, RepliesIn, Talks, Outlived, Stages, Screens, Packets
    <2>2. \A s \in Screens : Ahead(s) => Ahead(s)'
      BY <1>1, <1>4, ScreensAre, ScreensAreNext DEF Ahead, WaitsFit, RepliesIn, Talks, Outlived, InMenu, Behind, Stale, Fits, After, Screens, Stages
    <2> QED
      BY <1>1, <1>4, <2>1, <2>2, ServerKeeps
  <1>5. CASE /\ Put("LOBBY") /\ loop = "LOBBY" /\ loop' = "none"
            /\ server' = server /\ server = "LOBBY"
    <2>1. /\ server' \in Stages /\ reply' \in Packets \cup {"none", "OTHERS", "MORE", "SPIN"}
          /\ loop' \in Packets \cup {"none", "dead"} /\ WaitsFit'
      BY <1>1, <1>5 DEF WaitsFit, RepliesIn, Talks, Outlived, Stages, Screens, Packets
    <2>2. \A s \in Screens :
             Ahead(s) => Fits("LOBBY", s) /\ \E t \in Screens : t = After(s, "LOBBY") /\ Ahead(t)'
      BY <1>1, <1>5, ScreensAre, ScreensAreNext DEF Ahead, WaitsFit, RepliesIn, Talks, Outlived, InMenu, Behind, Stale, Fits, After, Screens, Stages
    <2> QED
      BY <1>1, <1>5, <2>1, <2>2, ServerKeeps DEF Packets
  <1>6. CASE /\ Put("GAME_END") /\ loop = "GAME_END" /\ loop' \in {"none", "INFO"}
            /\ server' = server /\ server = "STATISTICS"
    <2>1. /\ server' \in Stages /\ reply' \in Packets \cup {"none", "OTHERS", "MORE", "SPIN"}
          /\ loop' \in Packets \cup {"none", "dead"} /\ WaitsFit'
      BY <1>1, <1>6 DEF WaitsFit, RepliesIn, Talks, Outlived, Stages, Screens, Packets
    <2>2. \A s \in Screens :
             Ahead(s) => Fits("GAME_END", s) /\ \E t \in Screens : t = After(s, "GAME_END") /\ Ahead(t)'
      BY <1>1, <1>6, ScreensAre, ScreensAreNext DEF Ahead, WaitsFit, RepliesIn, Talks, Outlived, InMenu, Behind, Stale, Fits, After, Screens, Stages
    <2> QED
      BY <1>1, <1>6, <2>1, <2>2, ServerKeeps DEF Packets
  <1>7. CASE /\ Put("GAME_READY") /\ loop = "GAME_READY" /\ loop' = "none"
            /\ server' = server /\ server # "gone"
    <2>1. /\ server' \in Stages /\ reply' \in Packets \cup {"none", "OTHERS", "MORE", "SPIN"}
          /\ loop' \in Packets \cup {"none", "dead"} /\ WaitsFit'
      BY <1>1, <1>7 DEF WaitsFit, RepliesIn, Talks, Outlived, Stages, Screens, Packets
    <2>2. \A s \in Screens :
             Ahead(s) => Fits("GAME_READY", s) /\ \E t \in Screens : t = After(s, "GAME_READY") /\ Ahead(t)'
      BY <1>1, <1>7, ScreensAre, ScreensAreNext DEF Ahead, WaitsFit, RepliesIn, Talks, Outlived, InMenu, Behind, Stale, Fits, After, Screens, Stages
    <2> QED
      BY <1>1, <1>7, <2>1, <2>2, ServerKeeps DEF Packets
  <1>8. CASE /\ Put("GAME_STATE") /\ loop = "GAME_STATE" /\ loop' = "none"
            /\ server' = server /\ server # "gone"
    <2>1. /\ server' \in Stages /\ reply' \in Packets \cup {"none", "OTHERS", "MORE", "SPIN"}
          /\ loop' \in Packets \cup {"none", "dead"} /\ WaitsFit'
      BY <1>1, <1>8 DEF WaitsFit, RepliesIn, Talks, Outlived, Stages, Screens, Packets
    <2>2. \A s \in Screens :
             Ahead(s) => Fits("GAME_STATE", s) /\ \E t \in Screens : t = After(s, "GAME_STATE") /\ Ahead(t)'
      BY <1>1, <1>8, ScreensAre, ScreensAreNext DEF Ahead, WaitsFit, RepliesIn, Talks, Outlived, InMenu, Behind, Stale, Fits, After, Screens, Stages
    <2> QED
      BY <1>1, <1>8, <2>1, <2>2, ServerKeeps DEF Packets
  <1>9. CASE /\ Put("INFO") /\ loop = "INFO" /\ loop' = "none"
            /\ server' = server /\ server # "gone"
    <2>1. /\ server' \in Stages /\ reply' \in Packets \cup {"none", "OTHERS", "MORE", "SPIN"}
          /\ loop' \in Packets \cup {"none", "dead"} /\ WaitsFit'
      BY <1>1, <1>9 DEF WaitsFit, RepliesIn, Talks, Outlived, Stages, Screens, Packets
    <2>2. \A s \in Screens :
             Ahead(s) => Fits("INFO", s) /\ \E t \in Screens : t = After(s, "INFO") /\ Ahead(t)'
      BY <1>1, <1>9, ScreensAre, ScreensAreNext DEF Ahead, WaitsFit, RepliesIn, Talks, Outlived, InMenu, Behind, Stale, Fits, After, Screens, Stages
    <2> QED
      BY <1>1, <1>9, <2>1, <2>2, ServerKeeps DEF Packets
  <1>10. CASE /\ Put("RETURN_TO_MENU") /\ loop = "RETURN_TO_MENU" /\ loop' = "none"
            /\ server' = server /\ server # "gone"
    <2>1. /\ server' \in Stages /\ reply' \in Packets \cup {"none", "OTHERS", "MORE", "SPIN"}
          /\ loop' \in Packets \cup {"none", "dead"} /\ WaitsFit'
      BY <1>1, <1>10 DEF WaitsFit, RepliesIn, Talks, Outlived, Stages, Screens, Packets
    <2>2. \A s \in Screens :
             Ahead(s) => Fits("RETURN_TO_MENU", s) /\ \E t \in Screens : t = After(s, "RETURN_TO_MENU") /\ Ahead(t)'
      BY <1>1, <1>10, ScreensAre, ScreensAreNext DEF Ahead, WaitsFit, RepliesIn, Talks, Outlived, InMenu, Behind, Stale, Fits, After, Screens, Stages
    <2> QED
      BY <1>1, <1>10, <2>1, <2>2, ServerKeeps DEF Packets
  <1> QED
    BY <1>2, <1>3, <1>4, <1>5, <1>6, <1>7, <1>8, <1>9, <1>10

(* What somebody says in the lobby *)
LEMMA ChatterKeeps ==
    ASSUME IInv, Chatter
    PROVE  IInv'
  <1>1. /\ UNCHANGED <<lobbyData, recv, rend, keys, text, even, main, mail, server, reply, loop>>
        /\ mail' \in Mails /\ server \in Stages /\ reply \in Packets \cup {"none", "OTHERS", "MORE", "SPIN"}
        /\ loop \in Packets \cup {"none", "dead"} /\ chatter' \in BOOLEAN /\ WaitsFit
    BY DEF Chatter, ServerStep, ClientVars, IInv, TypeOK, Mails
  <1>2. \/ UNCHANGED channel /\ server' = server /\ reply' = reply /\ loop' = loop
        \/ Put("CHAT") /\ server' = server /\ reply' = reply /\ loop' = loop /\ server # "gone"
    BY DEF Chatter, ServerStep
  <1>3. CASE UNCHANGED channel /\ server' = server /\ reply' = reply /\ loop' = loop
    <2>1. /\ server' \in Stages /\ reply' \in Packets \cup {"none", "OTHERS", "MORE", "SPIN"}
          /\ loop' \in Packets \cup {"none", "dead"} /\ WaitsFit'
      BY <1>1, <1>3 DEF WaitsFit, RepliesIn, Talks, Outlived, Stages, Screens, Packets
    <2>2. \A s \in Screens : Ahead(s) => Ahead(s)'
      BY <1>1, <1>3, ScreensAre, ScreensAreNext DEF Ahead, WaitsFit, RepliesIn, Talks, Outlived, InMenu, Behind, Stale, Fits, After, Screens, Stages
    <2> QED
      BY <1>1, <1>3, <2>1, <2>2, ServerKeeps
  <1>4. CASE Put("CHAT") /\ server' = server /\ reply' = reply /\ loop' = loop /\ server # "gone"
    <2>1. /\ server' \in Stages /\ reply' \in Packets \cup {"none", "OTHERS", "MORE", "SPIN"}
          /\ loop' \in Packets \cup {"none", "dead"} /\ WaitsFit'
      BY <1>1, <1>4 DEF WaitsFit, RepliesIn, Talks, Outlived, Stages, Screens, Packets
    <2>2. \A s \in Screens :
             Ahead(s) => Fits("CHAT", s) /\ \E t \in Screens : t = After(s, "CHAT") /\ Ahead(t)'
      BY <1>1, <1>4, ScreensAre, ScreensAreNext DEF Ahead, WaitsFit, RepliesIn, Talks, Outlived, InMenu, Behind, Stale, Fits, After, Screens, Stages
    <2> QED
      BY <1>1, <1>4, <2>1, <2>2, ServerKeeps DEF Packets
  <1> QED
    BY <1>2, <1>3, <1>4

(* The packets of the client *)
LEMMA SendThreadKeeps ==
    ASSUME IInv, SendThread
    PROVE  IInv'
  <1>1. /\ UNCHANGED <<lobbyData, recv, rend, keys, text, even, main, channel, loop, chatter>>
        /\ mail' \in Mails /\ server \in Stages /\ reply \in Packets \cup {"none", "OTHERS", "MORE", "SPIN"}
        /\ loop \in Packets \cup {"none", "dead"} /\ chatter' \in BOOLEAN /\ WaitsFit
    BY DEF SendThread, Process, NextPlace, Ignored, ClientVars, IInv, TypeOK, Mails
  <1>2. \/ UNCHANGED <<server, reply>>
        \/ reply = "none" /\ server = "JOIN" /\ server' = "MENU" /\ reply' = "ACCEPT"
        \/ reply = "none" /\ server = "JOIN" /\ server' = server /\ reply' = "ACCEPT_ERROR"
        \/ reply = "none" /\ server = "MENU" /\ server' = server /\ reply' = "SPIN"
        \/ reply = "none" /\ server = "LOBBY" /\ server' = server /\ reply' \in {"OTHERS", "CHAT", "none"}
        \/ reply = "none" /\ server # "LOBBY" /\ server' = "gone" /\ reply' = "none"
        \/ reply = "none" /\ server = "LOADING" /\ server' = "READY" /\ reply' = reply
        \/ reply = "none" /\ server = "STATISTICS" /\ server' = "MENU" /\ reply' = "RETURN_TO_MENU"
        \/ /\ reply = "none" /\ server \notin {"STATISTICS", "gone"}
           /\ server' = "JOIN" /\ reply' = "RETURN_TO_JOIN"
    BY DEF SendThread, Process, NextPlace, Ignored
  <1>3. CASE UNCHANGED <<server, reply>>
    <2>1. /\ server' \in Stages /\ reply' \in Packets \cup {"none", "OTHERS", "MORE", "SPIN"}
          /\ loop' \in Packets \cup {"none", "dead"} /\ WaitsFit'
      BY <1>1, <1>3 DEF WaitsFit, RepliesIn, Talks, Outlived, Stages, Screens, Packets
    <2>2. \A s \in Screens : Ahead(s) => Ahead(s)'
      BY <1>1, <1>3, ScreensAre, ScreensAreNext DEF Ahead, WaitsFit, RepliesIn, Talks, Outlived, InMenu, Behind, Stale, Fits, After, Screens, Stages
    <2> QED
      BY <1>1, <1>3, <2>1, <2>2, ServerKeeps
  <1>4. CASE reply = "none" /\ server = "JOIN" /\ server' = "MENU" /\ reply' = "ACCEPT"
    <2>1. /\ server' \in Stages /\ reply' \in Packets \cup {"none", "OTHERS", "MORE", "SPIN"}
          /\ loop' \in Packets \cup {"none", "dead"} /\ WaitsFit'
      BY <1>1, <1>4 DEF WaitsFit, RepliesIn, Talks, Outlived, Stages, Screens, Packets
    <2>2. \A s \in Screens : Ahead(s) => Ahead(s)'
      BY <1>1, <1>4, ScreensAre, ScreensAreNext DEF Ahead, WaitsFit, RepliesIn, Talks, Outlived, InMenu, Behind, Stale, Fits, After, Screens, Stages
    <2> QED
      BY <1>1, <1>4, <2>1, <2>2, ServerKeeps
  <1>5. CASE reply = "none" /\ server = "JOIN" /\ server' = server /\ reply' = "ACCEPT_ERROR"
    <2>1. /\ server' \in Stages /\ reply' \in Packets \cup {"none", "OTHERS", "MORE", "SPIN"}
          /\ loop' \in Packets \cup {"none", "dead"} /\ WaitsFit'
      BY <1>1, <1>5 DEF WaitsFit, RepliesIn, Talks, Outlived, Stages, Screens, Packets
    <2>2. \A s \in Screens : Ahead(s) => Ahead(s)'
      BY <1>1, <1>5, ScreensAre, ScreensAreNext DEF Ahead, WaitsFit, RepliesIn, Talks, Outlived, InMenu, Behind, Stale, Fits, After, Screens, Stages
    <2> QED
      BY <1>1, <1>5, <2>1, <2>2, ServerKeeps
  <1>6. CASE reply = "none" /\ server = "MENU" /\ server' = server /\ reply' = "SPIN"
    <2>1. /\ server' \in Stages /\ reply' \in Packets \cup {"none", "OTHERS", "MORE", "SPIN"}
          /\ loop' \in Packets \cup {"none", "dead"} /\ WaitsFit'
      BY <1>1, <1>6 DEF WaitsFit, RepliesIn, Talks, Outlived, Stages, Screens, Packets
    <2>2. \A s \in Screens : Ahead(s) => Ahead(s)'
      BY <1>1, <1>6, ScreensAre, ScreensAreNext DEF Ahead, WaitsFit, RepliesIn, Talks, Outlived, InMenu, Behind, Stale, Fits, After, Screens, Stages
    <2> QED
      BY <1>1, <1>6, <2>1, <2>2, ServerKeeps
  <1>7. CASE reply = "none" /\ server = "LOBBY" /\ server' = server /\ reply' \in {"OTHERS", "CHAT", "none"}
    <2>1. /\ server' \in Stages /\ reply' \in Packets \cup {"none", "OTHERS", "MORE", "SPIN"}
          /\ loop' \in Packets \cup {"none", "dead"} /\ WaitsFit'
      BY <1>1, <1>7 DEF WaitsFit, RepliesIn, Talks, Outlived, Stages, Screens, Packets
    <2>2. \A s \in Screens : Ahead(s) => Ahead(s)'
      BY <1>1, <1>7, ScreensAre, ScreensAreNext DEF Ahead, WaitsFit, RepliesIn, Talks, Outlived, InMenu, Behind, Stale, Fits, After, Screens, Stages
    <2> QED
      BY <1>1, <1>7, <2>1, <2>2, ServerKeeps
  <1>8. CASE reply = "none" /\ server # "LOBBY" /\ server' = "gone" /\ reply' = "none"
    <2>1. /\ server' \in Stages /\ reply' \in Packets \cup {"none", "OTHERS", "MORE", "SPIN"}
          /\ loop' \in Packets \cup {"none", "dead"} /\ WaitsFit'
      BY <1>1, <1>8 DEF WaitsFit, RepliesIn, Talks, Outlived, Stages, Screens, Packets
    <2>2. \A s \in Screens : Ahead(s) => Ahead(s)'
      BY <1>1, <1>8, ScreensAre, ScreensAreNext DEF Ahead, WaitsFit, RepliesIn, Talks, Outlived, InMenu, Behind, Stale, Fits, After, Screens, Stages
    <2> QED
      BY <1>1, <1>8, <2>1, <2>2, ServerKeeps
  <1>9. CASE reply = "none" /\ server = "LOADING" /\ server' = "READY" /\ reply' = reply
    <2>1. /\ server' \in Stages /\ reply' \in Packets \cup {"none", "OTHERS", "MORE", "SPIN"}
          /\ loop' \in Packets \cup {"none", "dead"} /\ WaitsFit'
      BY <1>1, <1>9 DEF WaitsFit, RepliesIn, Talks, Outlived, Stages, Screens, Packets
    <2>2. \A s \in Screens : Ahead(s) => Ahead(s)'
      BY <1>1, <1>9, ScreensAre, ScreensAreNext DEF Ahead, WaitsFit, RepliesIn, Talks, Outlived, InMenu, Behind, Stale, Fits, After, Screens, Stages
    <2> QED
      BY <1>1, <1>9, <2>1, <2>2, ServerKeeps
  <1>10. CASE reply = "none" /\ server = "STATISTICS" /\ server' = "MENU" /\ reply' = "RETURN_TO_MENU"
    <2>1. /\ server' \in Stages /\ reply' \in Packets \cup {"none", "OTHERS", "MORE", "SPIN"}
          /\ loop' \in Packets \cup {"none", "dead"} /\ WaitsFit'
      BY <1>1, <1>10 DEF WaitsFit, RepliesIn, Talks, Outlived, Stages, Screens, Packets
    <2>2. \A s \in Screens : Ahead(s) => Ahead(s)'
      BY <1>1, <1>10, ScreensAre, ScreensAreNext DEF Ahead, WaitsFit, RepliesIn, Talks, Outlived, InMenu, Behind, Stale, Fits, After, Screens, Stages
    <2> QED
      BY <1>1, <1>10, <2>1, <2>2, ServerKeeps
  <1>11. CASE /\ reply = "none" /\ server \notin {"STATISTICS", "gone"}
            /\ server' = "JOIN" /\ reply' = "RETURN_TO_JOIN"
    <2>1. /\ server' \in Stages /\ reply' \in Packets \cup {"none", "OTHERS", "MORE", "SPIN"}
          /\ loop' \in Packets \cup {"none", "dead"} /\ WaitsFit'
      BY <1>1, <1>11 DEF WaitsFit, RepliesIn, Talks, Outlived, Stages, Screens, Packets
    <2>2. \A s \in Screens : Ahead(s) => Ahead(s)'
      BY <1>1, <1>11, ScreensAre, ScreensAreNext DEF Ahead, WaitsFit, RepliesIn, Talks, Outlived, InMenu, Behind, Stale, Fits, After, Screens, Stages
    <2> QED
      BY <1>1, <1>11, <2>1, <2>2, ServerKeeps
  <1> QED
    BY <1>2, <1>3, <1>4, <1>5, <1>6, <1>7, <1>8, <1>9, <1>10, <1>11

-----------------------------------------------------------------------------
(* The theorems *)

(* IInv holds of every client program: of main (pong_client.c), of its    *)
(* handlers between any two statements, and of what is on its way.         *)
THEOREM ClientInvariance == Spec => []IInv
  <1>1. Init => IInv
    <2> SUFFICES ASSUME Init PROVE IInv
      OBVIOUS
    <2>1. /\ At("events") \in MainType /\ At("events").at = "events"
          /\ rend \in RendType /\ recv = <<>> /\ channel = <<>>
      BY ClientAssumption DEF Init, At, MainType, Places, Mails, NULL, RendType, Screens, Mice, Keyboards
    <2>2. TypeOK
      <3>1. channel \in Seq(Packets) /\ Len(channel) <= MaxInFlight
        BY <2>1, ClientAssumption
      <3>2. /\ server \in Stages /\ reply = "none" /\ loop = "none" /\ chatter = FALSE
            /\ mail \in Mails /\ lobbyData \in BOOLEAN /\ rend.screen \in Screens
        BY DEF Init, Stages, Screens, Mails
      <3>3. keys \subseteq PaddleKeys \cup {"quit"}
        BY DEF Init
      <3>4. text \in -1 .. MaxText
        BY ClientAssumption DEF Init
      <3> QED
        BY <3>1, <3>2, <3>3, <3>4 DEF TypeOK
    <2>3. ThreadsOK
      BY <2>1 DEF Init, ThreadsOK
    <2>w. WaitsFit
      BY DEF Init, WaitsFit, RepliesIn, Stages, Screens
    <2>4. ChatFits /\ Once("append") /\ WindowFits
      BY <2>1, ClientAssumption DEF Init, ChatFits, Once, WindowFits
    <2>5. InCourse
      <3> DEFINE scr == [k \in 0 .. 0 |-> "JOIN"]
      <3>1. scr \in [0 .. Len(channel) -> Screens] /\ scr[0] = "JOIN" /\ Len(channel) = 0
        BY <2>1 DEF Screens
      <3> HIDE DEF scr
      <3>2. rend.screen = "JOIN" /\ rend.mouse = "join" /\ rend.keyboard = "type" /\ server = "JOIN"
        BY DEF Init
      <3>3. Ends("screen", scr[0]) /\ Ends("mouse", MouseOf[scr[0]]) /\ Ends("keyboard", KeyboardOf[scr[0]])
        BY <2>1, <3>1, <3>2 DEF Ends, MouseOf, KeyboardOf
      <3>a. Ahead("JOIN")
        BY <3>2, ScreensAre DEF Init, Ahead, Stale, Screens
      <3>4. Course(scr)
        BY <2>1, <3>1, <3>2, <3>3, <3>a DEF Course
      <3> QED
        BY <3>1, <3>4 DEF InCourse
    <2> QED
      BY <2>2, <2>3, <2>w, <2>4, <2>5 DEF IInv
  <1>2. IInv /\ [Next]_vars => IInv'
    <2> SUFFICES ASSUME IInv, [Next]_vars
                 PROVE  IInv'
      OBVIOUS
    <2>1. CASE Receive
      BY <2>1, ReceiveKeeps
    <2>2. CASE ServerDisconnected
      BY <2>2, DisconnectKeeps
    <2>3. CASE Statement
      BY <2>3, StatementKeeps
    <2>4. CASE Event \/ Callback
      BY <2>4, MainStepKeeps
    <2>5. CASE SendThread
      BY <2>5, SendThreadKeeps
    <2>6. CASE Server
      BY <2>6, SendReplyKeeps, LoopKeeps, SendPacketKeeps, ChatterKeeps DEF Server
    <2>7. CASE UNCHANGED vars
      BY <2>7, MainKeeps DEF vars, ServerVars, IInv, TypeOK, ThreadsOK
    <2> QED
      BY <2>1, <2>2, <2>3, <2>4, <2>5, <2>6, <2>7 DEF Next, ReceiveThread
  <1> QED
    BY <1>1, <1>2, PTL DEF Spec

(* Type correctness: the text typed never grows past the input buffer and  *)
(* falls below zero by no more than the one character that a backspace and *)
(* clear_input_buffer may both take (type_keyboard, pong_graphics.c).      *)
THEOREM ClientTypeCorrect == Spec => []TypeOK
  BY ClientInvariance, PTL DEF IInv

(* append_message_to_chat, with its test by == alone, never lets the list  *)
(* outgrow the window, for windows of any two sizes.                       *)
THEOREM ChatCorrect == Spec => []ChatFits
  BY ClientInvariance, PTL DEF IInv

(* The handlers of pong_client.c leave every screen with its mouse and its *)
(* keyboard.                                                               *)
THEOREM ListenersCorrect == Spec => []ListenersMatchScreen
  <1>1. IInv => ListenersMatchScreen
    BY AtRestOnCourse DEF ListenersMatchScreen, AtRest
  <1> QED
    BY <1>1, ClientInvariance, PTL

(* ACCEPT and LOBBY never meet "Invalid client state", and a packet of the *)
(* gameloop that waited while the client quit is one that its screen       *)
(* drops: for any number of packets in flight, with chat and with errors.  *)
THEOREM PacketsCorrect == Spec => []PacketFitsScreen
  <1>1. IInv => PacketFitsScreen
    BY AtRestOnCourse DEF PacketFitsScreen, AtRest
  <1> QED
    BY <1>1, ClientInvariance, PTL
=============================================================================
