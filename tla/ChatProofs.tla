------------------------------ MODULE ChatProofs ------------------------------
(***************************************************************************)
(* Theorems about Chat, for any set of processes with a terminal, any      *)
(* alphabet, any size of input_buffer and any bound on what users say.     *)
(***************************************************************************)
EXTENDS Chat, StreamLemmas, FiniteSetTheorems

\* The client's user was told of the end once, if disconnected_printed is set,
\* and not at all otherwise.
FarewellInv == farewells <= IF gone THEN 1 ELSE 0

\* A process has no connection until connect or accept returns, and its
\* receiver runs after that and until the process ends.
SetupInv ==
  \A p \in Peer :
    /\ main[p] \in {"start", "accept"} => sock[p] = "none"
    /\ sock[p] = "none" => main[p] \in {"start", "accept"} \cup Ended
    /\ main[p] \in {"start", "accept", "create"} \cup Ended => rcv[p] = "none"

\* The host is the one that accepts; it listens while it does.  Before it
\* listens nobody has a connection and nothing was said.
ListenInv ==
  /\ main["client"] # "accept"
  /\ main["host"] = "accept" => listening
  /\ main["host"] = "start" =>
       /\ ~listening
       /\ \A p \in Peer : sock[p] = "none"
       /\ \A p \in Peer : said[p] = <<>> /\ heard[p] = <<>> /\ chunk[p] = <<>> /\ inbox[p] = <<>>

\* Who has sent a FIN has shut or closed its end.
FinInv == \A p \in Peer : fin[p] => sock[p] \in {"shut", "closed"}

\* The receiver holds bytes only between recv and the screen; main sends what
\* is in input_buffer.
BufferInv ==
  \A p \in Peer :
    /\ rcv[p] \in {"none", "recv", "eof"} => chunk[p] = <<>>
    /\ rcv[p] = "show" => chunk[p] # <<>>
    /\ main[p] = "send" => input[p] \in Line

\* What p's process, or the kernel on its behalf, still takes bytes in.
Receiving(p) == sock[p] = "open" \/ (listening /\ sock[p] = "none")

\* What the other has said is what p has been through, holds, and has in its
\* socket, and then what was lost: nothing while p receives.
Said(p, lost) == said[Other(p)] = Stream(heard[p], chunk[p], inbox[p], lost)

StreamInv ==
  \A p \in Peer : \E lost \in Seq(Char) :
    Said(p, lost) /\ (Receiving(p) => lost = <<>>)

\* An orderly end is seen when the other has sent all that it will send, and
\* everything it has sent was received.
EofInv ==
  \A p \in Peer :
    (rcv[p] = "eof" /\ sock[p] = "open" /\ err[p] = "none")
      => inbox[p] = <<>> /\ fin[Other(p)]

\* The host, and who types at a terminal, sends no CR; and a screen that was sent
\* none has shown everything it was sent.
PlainInv ==
  \A p \in Peer :
    /\ p = "host" \/ tty(p) => Plain(input[p]) /\ Plain(said[p])
    /\ Plain(heard[p]) => shown[p] = heard[p]

ConnInv == SetupInv /\ ListenInv /\ FinInv /\ BufferInv /\ EofInv

TypeInv == TypeOK /\ FarewellInv

USE ChatAssumption DEF Peer, Other

-------------------------------------------------------------------------------
(* Types.                                                                  *)

LEMMA EmptyIsSeq == <<>> \in Seq(Char)
  OBVIOUS

\* A line is a sequence of at least one character.
LEMMA LineIsSeq ==
  ASSUME NEW l \in Line
  PROVE  l \in Seq(Char) /\ l # <<>> /\ Len(l) \in 1..MaxLine
<1>1. PICK n \in 1..MaxLine : l \in [1..n -> Char]
  BY DEF Line
<1>2. l \in Seq(Char) /\ Len(l) = n
  BY <1>1
<1>3. QED
  BY <1>1, <1>2

LEMMA SeqIsLine ==
  ASSUME NEW l \in Seq(Char), Len(l) \in 1..MaxLine
  PROVE  l \in Line
  BY DEF Line

\* What input_buffer may hold, and what a key makes of it.
LEMMA InputIsSeq ==
  ASSUME NEW s \in Line \cup {<<>>}
  PROVE  s \in Seq(Char) /\ Len(s) \in 0..MaxLine
<1>1. CASE s \in Line
  BY <1>1, LineIsSeq
<1>2. CASE s = <<>>
  BY <1>2
<1>3. QED
  BY <1>1, <1>2

LEMMA InputGrows ==
  ASSUME NEW s \in Line \cup {<<>>}, NEW c \in Char, Len(s) < MaxLine
  PROVE  Append(s, c) \in Line
<1>1. s \in Seq(Char) /\ Len(s) \in Nat
  BY InputIsSeq
<1>2. Append(s, c) \in Seq(Char) /\ Len(Append(s, c)) = Len(s) + 1
  BY <1>1
<1>3. Len(s) + 1 \in 1..MaxLine
  BY <1>1 DEF ChatAssumption
<1>4. Len(Append(s, c)) \in 1..MaxLine
  BY <1>2, <1>3
<1>5. QED
  BY <1>2, <1>4, SeqIsLine

LEMMA FrontIsSeq ==
  ASSUME NEW s \in Seq(Char), s # <<>>
  PROVE  Front(s) \in Seq(Char) /\ Len(Front(s)) = Len(s) - 1
<1>1. Len(s) \in Nat \ {0}
  BY EmptySeq, LenProperties
<1>2. 1 \in Int /\ Len(s) - 1 \in Int /\ \A i \in 1 .. Len(s) - 1 : s[i] \in Char
  BY <1>1
<1>3. SubSeq(s, 1, Len(s) - 1) \in Seq(Char)
  BY <1>2, SubSeqProperties
<1>4. Len(SubSeq(s, 1, Len(s) - 1)) = Len(s) - 1
  <2>1. Len(SubSeq(s, 1, Len(s) - 1)) = IF 1 <= Len(s) - 1 THEN Len(s) - 1 - 1 + 1 ELSE 0
    BY <1>2, SubSeqProperties
  <2> DEFINE front == Len(SubSeq(s, 1, Len(s) - 1))
             n == Len(s)
  <2>2. n \in Nat \ {0} /\ front = IF 1 <= n - 1 THEN n - 1 - 1 + 1 ELSE 0
    BY <1>1, <2>1
  <2> HIDE DEF front, n
  <2>3. front = n - 1
    BY <2>2
  <2>4. QED
    BY <2>3 DEF front, n
<1>5. QED
  BY <1>3, <1>4 DEF Front

LEMMA InputShrinks ==
  ASSUME NEW s \in Line \cup {<<>>}, s # <<>>
  PROVE  Front(s) \in Line \cup {<<>>}
<1>1. s \in Seq(Char) /\ Len(s) \in 1..MaxLine
  BY LineIsSeq
<1>2. Front(s) \in Seq(Char) /\ Len(Front(s)) = Len(s) - 1
  BY <1>1, FrontIsSeq
<1>3. CASE Len(s) = 1
  <2>1. Len(Front(s)) = 0
    BY <1>2, <1>3
  <2>2. Front(s) = <<>>
    BY <1>2, <2>1, EmptySeq
  <2>3. QED
    BY <2>2
<1>4. CASE Len(s) # 1
  <2>1. Len(Front(s)) \in 1..MaxLine
    BY <1>1, <1>2, <1>4
  <2>2. QED
    BY <1>2, <2>1, SeqIsLine
<1>5. QED
  BY <1>3, <1>4

\* The text of a buffer is a sequence of characters, and the whole buffer if there
\* is no CR in it.
LEMMA TextIsSeq ==
  ASSUME NEW s \in Seq(Char)
  PROVE  Text(s) \in Seq(Char) /\ (Plain(s) => Text(s) = s)
<1> DEFINE kept == {k \in 1..Len(s) : \A i \in 1..k : s[i] # CR}
<1>1. Len(s) \in Nat
  OBVIOUS
<1>2. IsFiniteSet(1..Len(s)) /\ Cardinality(1..Len(s)) = Len(s)
  <2> DEFINE n == Len(s)
  <2>1. n \in Nat /\ n \in Int /\ 1 \in Int
    BY <1>1
  <2> HIDE DEF n
  <2>2. /\ IsFiniteSet(1..n)
        /\ Cardinality(1..n) = IF 1 > n THEN 0 ELSE n - 1 + 1
    BY ONLY <2>1, FS_Interval, Zenon
  <2>3. Cardinality(1..n) = n
    BY ONLY <2>1, <2>2, SMT
  <2>4. QED
    BY <2>2, <2>3 DEF n
<1>3. IsFiniteSet(kept) /\ Cardinality(kept) <= Len(s)
  BY <1>2, FS_Subset
<1>4. Cardinality(kept) \in 0..Len(s)
  BY <1>1, <1>3, FS_CardinalityType
<1>5. SubSeq(s, 1, Cardinality(kept)) \in Seq(Char)
  BY <1>4, SplitSeq
<1>6. ASSUME Plain(s)
      PROVE  SubSeq(s, 1, Cardinality(kept)) = s
  <2>1. \A i \in 1..Len(s) : s[i] # CR
    BY <1>6 DEF Plain, Range
  <2>2. kept = 1..Len(s)
    BY <1>1, <2>1
  <2>3. QED
    BY <1>2, <2>2, SubSeqFull
<1>7. QED
  BY <1>5, <1>6 DEF Text, Cut

LEMMA PlainEmpty == Plain(<<>>)
  BY DEF Plain, Range

LEMMA PlainIndexed ==
  ASSUME NEW s \in Seq(Char)
  PROVE  Plain(s) <=> \A i \in 1..Len(s) : s[i] # CR
  BY DEF Plain, Range

LEMMA PlainConcat ==
  ASSUME NEW s \in Seq(Char), NEW t \in Seq(Char)
  PROVE  Plain(s \o t) <=> Plain(s) /\ Plain(t)
<1>1. s \o t \in Seq(Char) /\ Len(s \o t) = Len(s) + Len(t)
  BY ConcatProperties
<1>2. \A i \in 1..Len(s) + Len(t) : (s \o t)[i] = IF i <= Len(s) THEN s[i] ELSE t[i - Len(s)]
  BY ConcatProperties
<1>3. Len(s) \in Nat /\ Len(t) \in Nat
  OBVIOUS
<1>4. ASSUME Plain(s \o t)
      PROVE  Plain(s) /\ Plain(t)
  <2>1. \A i \in 1..Len(s) + Len(t) : (s \o t)[i] # CR
    BY <1>1, <1>4, PlainIndexed
  <2>2. \A i \in 1..Len(s) : s[i] # CR
    BY <1>2, <1>3, <2>1
  <2>3. \A i \in 1..Len(t) : t[i] # CR
    <3> TAKE i \in 1..Len(t)
    <3>1. Len(s) + i \in 1..Len(s) + Len(t) /\ ~(Len(s) + i <= Len(s)) /\ Len(s) + i - Len(s) = i
      BY <1>3
    <3>2. (s \o t)[Len(s) + i] = t[i]
      BY <1>2, <3>1
    <3>3. QED
      BY <2>1, <3>1, <3>2
  <2>4. QED
    BY <2>2, <2>3, PlainIndexed
<1>5. ASSUME Plain(s), Plain(t)
      PROVE  Plain(s \o t)
  <2>1. (\A i \in 1..Len(s) : s[i] # CR) /\ \A i \in 1..Len(t) : t[i] # CR
    BY <1>5, PlainIndexed
  <2>2. \A i \in 1..Len(s) + Len(t) : (s \o t)[i] # CR
    BY <1>2, <1>3, <2>1
  <2>3. QED
    BY <1>1, <2>2, PlainIndexed
<1>6. QED
  BY <1>4, <1>5

\* What the keys of a terminal do to a buffer puts no CR into it.
LEMMA PlainKeys ==
  ASSUME NEW s \in Seq(Char), Plain(s)
  PROVE  /\ \A c \in Char \ {CR} : Plain(Append(s, c))
         /\ s # <<>> => Plain(Front(s))
<1>1. \A i \in 1..Len(s) : s[i] # CR
  BY PlainIndexed
<1>2. ASSUME NEW c \in Char \ {CR}
      PROVE  Plain(Append(s, c))
  <2>1. /\ Append(s, c) \in Seq(Char)
        /\ Len(Append(s, c)) = Len(s) + 1
        /\ \A i \in 1..Len(s) : Append(s, c)[i] = s[i]
        /\ Append(s, c)[Len(s) + 1] = c
        /\ Len(s) \in Nat
    BY AppendProperties
  <2>2. \A i \in 1..Len(s) + 1 : Append(s, c)[i] # CR
    <3> TAKE i \in 1..Len(s) + 1
    <3>1. i = Len(s) + 1 \/ i \in 1..Len(s)
      BY <2>1
    <3>2. QED
      BY <1>1, <1>2, <2>1, <3>1
  <2>3. QED
    BY <2>1, <2>2, PlainIndexed
<1>3. ASSUME s # <<>>
      PROVE  Plain(Front(s))
  <2>1. Len(s) \in Nat \ {0}
    BY <1>3, EmptySeq, LenProperties
  <2>2. Len(s) - 1 \in 0..Len(s)
    BY <2>1
  <2>3. /\ SubSeq(s, 1, Len(s) - 1) \in Seq(Char)
        /\ SubSeq(s, Len(s) - 1 + 1, Len(s)) \in Seq(Char)
        /\ SubSeq(s, 1, Len(s) - 1) \o SubSeq(s, Len(s) - 1 + 1, Len(s)) = s
    BY <2>2, SplitSeq
  <2> DEFINE front == SubSeq(s, 1, Len(s) - 1)
             back == SubSeq(s, Len(s) - 1 + 1, Len(s))
  <2>4. front \in Seq(Char) /\ back \in Seq(Char) /\ front \o back = s
    BY <2>3
  <2>5. Front(s) = front
    BY DEF Front
  <2> HIDE DEF front, back
  <2>6. Plain(front \o back)
    BY <2>4
  <2>7. Plain(front)
    BY <2>4, <2>6, PlainConcat
  <2>8. QED
    BY <2>5, <2>7
<1>4. QED
  BY <1>2, <1>3

LEMMA InitType == Init => TypeInv
<1> SUFFICES ASSUME Init PROVE TypeInv
  OBVIOUS
<1>1. TypeOK
  <2>1. <<>> \in Line \cup {<<>>}
    OBVIOUS
  <2>2. /\ main \in [Peer -> MainPc \cup Ended]
        /\ rcv \in [Peer -> RcvPc]
        /\ term \in [Peer -> {"cooked", "raw", "zeroed"}]
        /\ orig \in [Peer -> {"cooked", "raw", "zeroed"}]
        /\ sock \in [Peer -> {"none", "open", "shut", "closed"}]
        /\ err \in [Peer -> {"none", "sent", "ECONNRESET", "EPIPE", "taken"}]
    BY DEF Init, MainPc, RcvPc
  <2>3. /\ input \in [Peer -> Line \cup {<<>>}]
        /\ line \in [Peer -> Seq(Char)]
        /\ chunk \in [Peer -> Seq(Char)]
        /\ inbox \in [Peer -> Seq(Char)]
        /\ said \in [Peer -> Seq(Char)]
        /\ heard \in [Peer -> Seq(Char)]
        /\ shown \in [Peer -> Seq(Char)]
    BY <2>1, EmptyIsSeq DEF Init
  <2>4. /\ gone \in BOOLEAN /\ farewells \in 0..2 /\ listening \in BOOLEAN
    <3>1. gone = FALSE /\ listening = FALSE /\ farewells = 0
      BY DEF Init
    <3>2. gone \in BOOLEAN /\ listening \in BOOLEAN
      BY <3>1, Zenon
    <3>3. QED
      BY <3>1, <3>2
  <2>5. fin \in [Peer -> BOOLEAN]
    <3>1. fin = [q \in Peer |-> FALSE]
      BY DEF Init
    <3>2. QED
      BY <3>1
  <2>6. QED
    BY <2>2, <2>3, <2>4, <2>5 DEF TypeOK
<1>2. FarewellInv
  BY DEF Init, FarewellInv
<1>3. QED
  BY <1>1, <1>2 DEF TypeInv

\* Closing, shutting and ending keep the types.
LEMMA CloseType ==
  ASSUME TypeOK, NEW p \in Peer, SocketClosed(p)
  PROVE  /\ sock' \in [Peer -> {"none", "open", "shut", "closed"}]
         /\ fin' \in [Peer -> BOOLEAN]
         /\ err' \in [Peer -> {"none", "sent", "ECONNRESET", "EPIPE", "taken"}]
<1>1. sock' \in [Peer -> {"none", "open", "shut", "closed"}]
  BY DEF TypeOK, SocketClosed
<1>2. fin' \in [Peer -> BOOLEAN]
  <2>1. fin \in [Peer -> BOOLEAN]
    BY DEF TypeOK
  <2>2. (fin[p] \/ sock[p] = "open") \in BOOLEAN
    OBVIOUS
  <2>3. fin' = fin \/ fin' = [fin EXCEPT ![p] = fin[p] \/ sock[p] = "open"]
    BY DEF SocketClosed
  <2>4. QED
    BY <2>1, <2>2, <2>3
<1>3. err' \in [Peer -> {"none", "sent", "ECONNRESET", "EPIPE", "taken"}]
  BY DEF TypeOK, SocketClosed, ResetSentTo
<1>4. QED
  BY <1>1, <1>2, <1>3

LEMMA ShutType ==
  ASSUME TypeOK, NEW p \in Peer, SocketShut(p)
  PROVE  /\ sock' \in [Peer -> {"none", "open", "shut", "closed"}]
         /\ fin' \in [Peer -> BOOLEAN]
  BY DEF TypeOK, SocketShut

LEMMA EndType ==
  ASSUME TypeInv, NEW p \in Peer, NEW how \in Ended, ProcessEnds(p, how)
  PROVE  TypeInv'
<1>1. /\ sock' \in [Peer -> {"none", "open", "shut", "closed"}]
      /\ fin' \in [Peer -> BOOLEAN]
      /\ err' \in [Peer -> {"none", "sent", "ECONNRESET", "EPIPE", "taken"}]
  <2>1. CASE p = "host" /\ sock["host"] = "none"
    BY <2>1 DEF ProcessEnds, TypeInv, TypeOK, ResetSentTo
  <2>2. CASE ~(p = "host" /\ sock["host"] = "none")
    BY <2>2, CloseType DEF ProcessEnds, TypeInv
  <2>3. QED
    BY <2>1, <2>2
<1>2. TypeOK'
  BY <1>1 DEF TypeInv, TypeOK, ProcessEnds, Ended, RcvPc
<1>3. FarewellInv'
  BY DEF TypeInv, FarewellInv, ProcessEnds
<1>4. QED
  BY <1>2, <1>3 DEF TypeInv

LEMMA TypingType ==
  ASSUME TypeInv, NEW p \in Peer, Typing(p)
  PROVE  TypeInv'
<1> USE DEF TypeInv, TypeOK, FarewellInv, MainGoesTo, RcvGoesTo, tcpVars, processVars, MainPc, RcvPc, Ended
<1>1. CASE Key(p)
  <2>1. PICK c \in Char : /\ input' = [input EXCEPT ![p] = Append(@, c)]
                          /\ line' = [line EXCEPT ![p] = Append(@, c)]
    BY <1>1 DEF Key
  <2>2. Append(input[p], c) \in Line
    BY <1>1, InputGrows DEF Key
  <2>3. Append(line[p], c) \in Seq(Char)
    BY <2>1
  <2>4. QED
    BY <1>1, <2>1, <2>2, <2>3 DEF Key
<1>2. CASE Backspace(p)
  <2>1. Front(input[p]) \in Line \cup {<<>>}
    BY <1>2, InputShrinks DEF Backspace
  <2>2. line[p] # <<>> => Front(line[p]) \in Seq(Char)
    BY FrontIsSeq
  <2>3. QED
    BY <1>2, <2>1, <2>2 DEF Backspace
<1>3. CASE Enter(p)
  BY <1>3 DEF Enter
<1>4. CASE Fgets(p)
  BY <1>4 DEF Fgets
<1>5. CASE Eof(p)
  BY <1>5 DEF Eof
<1>6. QED
  BY <1>1, <1>2, <1>3, <1>4, <1>5 DEF Typing

LEMMA SetupType ==
  ASSUME TypeInv, NEW p \in Peer, Setup(p)
  PROVE  TypeInv'
<1> USE DEF TypeInv, TypeOK, FarewellInv, MainGoesTo, RcvGoesTo, tcpVars, processVars, MainPc, RcvPc, Ended
<1>1. CASE HostListens
  BY <1>1 DEF HostListens
<1>2. CASE HostAccepts
  BY <1>2 DEF HostAccepts
<1>3. CASE ClientConnects
  BY <1>3 DEF ClientConnects
<1>4. CASE SetupFails(p)
  BY <1>4, EndType DEF SetupFails
<1>5. CASE StartReceiver(p)
  BY <1>5 DEF StartReceiver
<1>6. CASE SaveTerminal(p)
  BY <1>6 DEF SaveTerminal
<1>7. CASE RawTerminal(p)
  BY <1>7 DEF RawTerminal
<1>8. QED
  BY <1>1, <1>2, <1>3, <1>4, <1>5, <1>6, <1>7 DEF Setup

LEMMA MainType ==
  ASSUME TypeInv, NEW p \in Peer, Main(p)
  PROVE  TypeInv'
<1> USE DEF TypeInv, TypeOK, FarewellInv, MainGoesTo, RcvGoesTo, tcpVars, processVars, MainPc, RcvPc, Ended
<1>1. CASE Setup(p)
  BY <1>1, SetupType
<1>2. CASE SendOk(p)
  <2>1. input[p] \in Seq(Char)
    BY InputIsSeq
  <2>2. said[p] \o input[p] \in Seq(Char) /\ inbox[Other(p)] \o input[p] \in Seq(Char)
    BY <2>1, ConcatProperties
  <2>3. said' \in [Peer -> Seq(Char)] /\ inbox' \in [Peer -> Seq(Char)]
    <3>1. said' = [said EXCEPT ![p] = said[p] \o input[p]]
      BY <1>2 DEF SendOk
    <3>2. inbox' = inbox \/ inbox' = [inbox EXCEPT ![Other(p)] = inbox[Other(p)] \o input[p]]
      BY <1>2 DEF SendOk
    <3>3. said' \in [Peer -> Seq(Char)]
      BY <2>2, <3>1, Zenon
    <3>4. inbox' \in [Peer -> Seq(Char)]
      <4>1. Other(p) \in Peer
        OBVIOUS
      <4> HIDE DEF Other
      <4>2. CASE inbox' = inbox
        BY <4>2
      <4>3. CASE inbox' = [inbox EXCEPT ![Other(p)] = inbox[Other(p)] \o input[p]]
        BY <2>2, <4>1, <4>3, Zenon
      <4>4. QED
        BY <3>2, <4>2, <4>3
    <3>5. QED
      BY <3>3, <3>4
  <2>4. main' \in [Peer -> MainPc \cup Ended]
    BY <1>2 DEF SendOk
  <2>5. err' \in [Peer -> {"none", "sent", "ECONNRESET", "EPIPE", "taken"}]
    <3>1. err' = err \/ err' = [err EXCEPT ![p] = "sent"]
      BY <1>2 DEF SendOk
    <3>2. QED
      BY <3>1
  <2>6. UNCHANGED <<rcv, term, orig, input, line, chunk, gone, farewells, listening, sock, fin, heard, shown>>
    BY <1>2 DEF SendOk
  <2>7. QED
    BY <2>3, <2>4, <2>5, <2>6
<1>3. CASE SendFails(p)
  BY <1>3 DEF SendFails
<1>4. CASE SendSigpipe(p)
  BY <1>4, EndType DEF SendSigpipe
<1>5. CASE ShowOwnLine(p)
  BY <1>5 DEF ShowOwnLine
<1>6. CASE ResetInput(p)
  BY <1>6 DEF ResetInput
<1>7. CASE Bye
  BY <1>7 DEF Bye, Farewell
<1>8. CASE MainShutdown(p)
  BY <1>8, ShutType DEF MainShutdown
<1>9. CASE MainClose(p)
  BY <1>9, CloseType DEF MainClose
<1>10. CASE MainRestore(p)
  BY <1>10 DEF MainRestore, Restored
<1>11. CASE MainReturns(p)
  BY <1>11, EndType DEF MainReturns
<1>12. QED
  BY <1>1, <1>2, <1>3, <1>4, <1>5, <1>6, <1>7, <1>8, <1>9, <1>10, <1>11 DEF Main

LEMMA ReceiverType ==
  ASSUME TypeInv, NEW p \in Peer, Receiver(p)
  PROVE  TypeInv'
<1> USE DEF TypeInv, TypeOK, FarewellInv, MainGoesTo, RcvGoesTo, tcpVars, processVars, MainPc, RcvPc, Ended
<1>1. CASE Recv(p)
  <2>1. PICK n \in 1..Len(inbox[p]) :
          /\ chunk' = [chunk EXCEPT ![p] = SubSeq(inbox[p], 1, n)]
          /\ inbox' = [inbox EXCEPT ![p] = SubSeq(@, n + 1, Len(@))]
          /\ rcv' = [rcv EXCEPT ![p] = "exit"] \/ rcv' = [rcv EXCEPT ![p] = "show"]
    BY <1>1 DEF Recv
  <2>2. /\ SubSeq(inbox[p], 1, n) \in Seq(Char)
        /\ SubSeq(inbox[p], n + 1, Len(inbox[p])) \in Seq(Char)
    <3> DEFINE b == inbox[p]
    <3>1. b \in Seq(Char) /\ n \in 1..Len(b)
      BY <2>1
    <3> HIDE DEF b
    <3>2. SubSeq(b, 1, n) \in Seq(Char) /\ SubSeq(b, n + 1, Len(b)) \in Seq(Char)
      BY ONLY <3>1, SMT
    <3>3. QED
      BY <3>2 DEF b
  <2>3. chunk' \in [Peer -> Seq(Char)] /\ inbox' \in [Peer -> Seq(Char)] /\ rcv' \in [Peer -> RcvPc]
    BY <2>1, <2>2
  <2>4. UNCHANGED <<main, term, orig, input, line, gone, farewells>>
        /\ UNCHANGED <<listening, sock, fin, err, said, heard, shown>>
    BY <1>1 DEF Recv
  <2>5. QED
    BY <2>3, <2>4
<1>2. CASE RecvEof(p)
  BY <1>2 DEF RecvEof
<1>3. CASE RecvError(p)
  BY <1>3 DEF RecvError
<1>4. CASE ShowText(p)
  <2>1. shown[p] \o Text(chunk[p]) \in Seq(Char) /\ heard[p] \o chunk[p] \in Seq(Char)
    BY TextIsSeq, ConcatProperties
  <2>2. input[p] \in Seq(Char)
    BY InputIsSeq
  <2>3. shown' \in [Peer -> Seq(Char)] /\ heard' \in [Peer -> Seq(Char)]
    BY <1>4, <2>1 DEF ShowText
  <2>4. QED
    BY <1>4, <2>2, <2>3, EmptyIsSeq DEF ShowText
<1>5. CASE ShowEnd(p)
  <2>1. farewells' \in 0..2 /\ gone' \in BOOLEAN /\ FarewellInv'
    <3>1. Farewell \/ UNCHANGED <<gone, farewells>>
      BY <1>5 DEF ShowEnd
    <3>2. CASE Farewell
      BY <3>2 DEF Farewell
    <3>3. CASE UNCHANGED <<gone, farewells>>
      BY <3>3
    <3>4. QED
      BY <3>1, <3>2, <3>3
  <2>2. line' \in [Peer -> Seq(Char)] /\ rcv' \in [Peer -> RcvPc]
    BY <1>5, EmptyIsSeq DEF ShowEnd
  <2>3. UNCHANGED <<main, term, orig, input, chunk, listening, sock, inbox, fin, err, said, heard, shown>>
    BY <1>5 DEF ShowEnd
  <2>4. QED
    BY <2>1, <2>2, <2>3
<1>6. CASE RcvShutdown(p)
  BY <1>6, ShutType DEF RcvShutdown
<1>7. CASE RcvClose(p)
  BY <1>7, CloseType DEF RcvClose
<1>8. CASE RcvRestore(p)
  BY <1>8 DEF RcvRestore, Restored
<1>9. CASE RcvExits(p)
  BY <1>9, EndType DEF RcvExits
<1>10. QED
  BY <1>1, <1>2, <1>3, <1>4, <1>5, <1>6, <1>7, <1>8, <1>9 DEF Receiver

LEMMA StepType == TypeInv /\ [Next]_vars => TypeInv'
<1> SUFFICES ASSUME TypeInv, [Next]_vars PROVE TypeInv'
  OBVIOUS
<1>1. CASE Next
  <2>1. PICK p \in Peer : Typing(p) \/ Main(p) \/ Receiver(p) \/ ResetArrives(p)
    BY <1>1 DEF Next
  <2>2. CASE ResetArrives(p)
    BY <2>2 DEF ResetArrives, processVars, TypeInv, TypeOK, FarewellInv
  <2>3. QED
    BY <2>1, <2>2, TypingType, MainType, ReceiverType
<1>2. CASE UNCHANGED vars
  BY <1>2 DEF vars, TypeInv, TypeOK, FarewellInv
<1>3. QED
  BY <1>1, <1>2

LEMMA Typed == Spec => []TypeInv
<1>1. QED
  BY InitType, StepType, PTL DEF Spec

\* Every variable of both processes and of the connection keeps its type:
\* input_buffer never holds more than its size less one, whatever is typed.
THEOREM ChatTyping == Spec => []TypeOK
<1>1. TypeInv => TypeOK
  BY DEF TypeInv
<1>2. QED
  BY <1>1, Typed, PTL

\* The client's user is told at most once that the chat is over, although both
\* threads of the process come to tell it.
THEOREM ToldAtMostOnce == Spec => []ToldOnce
<1>1. TypeInv => ToldOnce
  BY DEF TypeInv, TypeOK, FarewellInv, ToldOnce
<1>2. QED
  BY <1>1, Typed, PTL

-------------------------------------------------------------------------------
(* The connection and the threads.                                         *)

\* What recv returns is not empty.
LEMMA ReceivedPart ==
  ASSUME NEW s \in Seq(Char), NEW n \in 1..Len(s)
  PROVE  SubSeq(s, 1, n) # <<>> /\ SubSeq(s, 1, n) \in Seq(Char)
<1>1. Len(s) \in Nat /\ n \in Nat \ {0}
  OBVIOUS
<1>2. SubSeq(s, 1, n) \in Seq(Char) /\ Len(SubSeq(s, 1, n)) = n
  BY <1>1
<1>3. QED
  BY <1>1, <1>2

LEMMA InitConn == Init => ConnInv
  BY DEF Init, ConnInv, SetupInv, ListenInv, FinInv, BufferInv, EofInv, Ended

LEMMA SetupInvStep == TypeInv /\ ConnInv /\ [Next]_vars => SetupInv'
<1> SUFFICES ASSUME TypeInv, ConnInv, [Next]_vars PROVE SetupInv'
  OBVIOUS
<1> USE DEF TypeInv, TypeOK, ConnInv, SetupInv, ListenInv, MainGoesTo, RcvGoesTo, tcpVars, processVars, MainPc, Ended
<1>1. ASSUME NEW p \in Peer, Typing(p) \/ Main(p) \/ Receiver(p) \/ ResetArrives(p) PROVE SetupInv'
  <2>1. CASE Key(p)
    BY <2>1 DEF Key
  <2>2. CASE Backspace(p)
    BY <2>2 DEF Backspace
  <2>3. CASE Enter(p)
    BY <2>3 DEF Enter
  <2>4. CASE Fgets(p)
    BY <2>4 DEF Fgets
  <2>5. CASE Eof(p)
    BY <2>5 DEF Eof
  <2>6. CASE HostListens
    BY <2>6 DEF HostListens
  <2>7. CASE HostAccepts
    BY <2>7 DEF HostAccepts
  <2>8. CASE ClientConnects
    BY <2>8 DEF ClientConnects
  <2>9. CASE SetupFails(p)
    BY <2>9 DEF SetupFails, ProcessEnds, SocketClosed, ResetSentTo
  <2>10. CASE StartReceiver(p)
    BY <2>10 DEF StartReceiver
  <2>11. CASE SaveTerminal(p)
    BY <2>11 DEF SaveTerminal
  <2>12. CASE RawTerminal(p)
    BY <2>12 DEF RawTerminal
  <2>13. CASE SendOk(p)
    BY <2>13 DEF SendOk
  <2>14. CASE SendFails(p)
    BY <2>14 DEF SendFails
  <2>15. CASE SendSigpipe(p)
    BY <2>15 DEF SendSigpipe, ProcessEnds, SocketClosed, ResetSentTo, RcvPc
  <2>16. CASE ShowOwnLine(p)
    BY <2>16 DEF ShowOwnLine
  <2>17. CASE ResetInput(p)
    BY <2>17 DEF ResetInput
  <2>18. CASE Bye
    BY <2>18 DEF Bye
  <2>19. CASE MainShutdown(p)
    BY <2>19 DEF MainShutdown, SocketShut
  <2>20. CASE MainClose(p)
    BY <2>20 DEF MainClose, SocketClosed, ResetSentTo
  <2>21. CASE MainRestore(p)
    BY <2>21 DEF MainRestore
  <2>22. CASE MainReturns(p)
    BY <2>22 DEF MainReturns, ProcessEnds, SocketClosed, ResetSentTo, RcvPc
  <2>23. CASE Recv(p)
    <3>1. UNCHANGED <<main, sock>> /\ rcv[p] = "recv"
      BY <2>23 DEF Recv
    <3>2. \E pc \in {"exit", "show"} : rcv' = [rcv EXCEPT ![p] = pc]
      BY <2>23 DEF Recv
    <3>3. \A q \in Peer : q # p => rcv'[q] = rcv[q]
      BY <3>2
    <3>4. main[p] \notin {"start", "accept", "create"} \cup Ended
      BY <3>1
    <3>5. QED
      BY <3>1, <3>3, <3>4
  <2>24. CASE RecvEof(p)
    BY <2>24 DEF RecvEof, AtEof, Broken
  <2>25. CASE RecvError(p)
    BY <2>25 DEF RecvError
  <2>26. CASE ShowText(p)
    BY <2>26 DEF ShowText
  <2>27. CASE ShowEnd(p)
    BY <2>27 DEF ShowEnd
  <2>28. CASE RcvShutdown(p)
    BY <2>28 DEF RcvShutdown, SocketShut
  <2>29. CASE RcvClose(p)
    BY <2>29 DEF RcvClose, SocketClosed, ResetSentTo
  <2>30. CASE RcvRestore(p)
    BY <2>30 DEF RcvRestore
  <2>31. CASE RcvExits(p)
    BY <2>31 DEF RcvExits, ProcessEnds, SocketClosed, ResetSentTo
  <2>32. CASE ResetArrives(p)
    BY <2>32 DEF ResetArrives
  <2>33. QED
    BY <1>1, <2>1, <2>2, <2>3, <2>4, <2>5, <2>6, <2>7, <2>8, <2>9, <2>10, <2>11, <2>12, <2>13, <2>14, <2>15, <2>16, <2>17, <2>18, <2>19, <2>20, <2>21, <2>22, <2>23, <2>24, <2>25, <2>26, <2>27, <2>28, <2>29, <2>30, <2>31, <2>32 DEF Typing, Setup, Main, Receiver
<1>2. CASE UNCHANGED vars
  BY <1>2 DEF vars
<1>3. QED
  BY <1>1, <1>2 DEF Next


LEMMA FinInvStep == TypeInv /\ ConnInv /\ [Next]_vars => FinInv'
<1> SUFFICES ASSUME TypeInv, ConnInv, [Next]_vars PROVE FinInv'
  OBVIOUS
<1> USE DEF TypeInv, TypeOK, ConnInv, FinInv, MainGoesTo, RcvGoesTo, tcpVars, processVars
<1>1. ASSUME NEW p \in Peer, Typing(p) \/ Main(p) \/ Receiver(p) \/ ResetArrives(p) PROVE FinInv'
  <2>1. CASE Key(p)
    BY <2>1 DEF Key
  <2>2. CASE Backspace(p)
    BY <2>2 DEF Backspace
  <2>3. CASE Enter(p)
    BY <2>3 DEF Enter
  <2>4. CASE Fgets(p)
    BY <2>4 DEF Fgets
  <2>5. CASE Eof(p)
    BY <2>5 DEF Eof
  <2>6. CASE HostListens
    BY <2>6 DEF HostListens
  <2>7. CASE HostAccepts
    BY <2>7 DEF HostAccepts, SetupInv
  <2>8. CASE ClientConnects
    BY <2>8 DEF ClientConnects, SetupInv
  <2>9. CASE SetupFails(p)
    BY <2>9 DEF SetupFails, ProcessEnds, SocketClosed, ResetSentTo
  <2>10. CASE StartReceiver(p)
    BY <2>10 DEF StartReceiver
  <2>11. CASE SaveTerminal(p)
    BY <2>11 DEF SaveTerminal
  <2>12. CASE RawTerminal(p)
    BY <2>12 DEF RawTerminal
  <2>13. CASE SendOk(p)
    BY <2>13 DEF SendOk
  <2>14. CASE SendFails(p)
    BY <2>14 DEF SendFails
  <2>15. CASE SendSigpipe(p)
    BY <2>15 DEF SendSigpipe, ProcessEnds, SocketClosed, ResetSentTo
  <2>16. CASE ShowOwnLine(p)
    BY <2>16 DEF ShowOwnLine
  <2>17. CASE ResetInput(p)
    BY <2>17 DEF ResetInput
  <2>18. CASE Bye
    BY <2>18 DEF Bye
  <2>19. CASE MainShutdown(p)
    BY <2>19 DEF MainShutdown, SocketShut
  <2>20. CASE MainClose(p)
    BY <2>20 DEF MainClose, SocketClosed, ResetSentTo
  <2>21. CASE MainRestore(p)
    BY <2>21 DEF MainRestore
  <2>22. CASE MainReturns(p)
    BY <2>22 DEF MainReturns, ProcessEnds, SocketClosed, ResetSentTo
  <2>23. CASE Recv(p)
    BY <2>23 DEF Recv
  <2>24. CASE RecvEof(p)
    BY <2>24 DEF RecvEof, AtEof, Broken
  <2>25. CASE RecvError(p)
    BY <2>25 DEF RecvError
  <2>26. CASE ShowText(p)
    BY <2>26 DEF ShowText
  <2>27. CASE ShowEnd(p)
    BY <2>27 DEF ShowEnd
  <2>28. CASE RcvShutdown(p)
    BY <2>28 DEF RcvShutdown, SocketShut
  <2>29. CASE RcvClose(p)
    BY <2>29 DEF RcvClose, SocketClosed, ResetSentTo
  <2>30. CASE RcvRestore(p)
    BY <2>30 DEF RcvRestore
  <2>31. CASE RcvExits(p)
    BY <2>31 DEF RcvExits, ProcessEnds, SocketClosed, ResetSentTo
  <2>32. CASE ResetArrives(p)
    BY <2>32 DEF ResetArrives
  <2>33. QED
    BY <1>1, <2>1, <2>2, <2>3, <2>4, <2>5, <2>6, <2>7, <2>8, <2>9, <2>10, <2>11, <2>12, <2>13, <2>14, <2>15, <2>16, <2>17, <2>18, <2>19, <2>20, <2>21, <2>22, <2>23, <2>24, <2>25, <2>26, <2>27, <2>28, <2>29, <2>30, <2>31, <2>32 DEF Typing, Setup, Main, Receiver
<1>2. CASE UNCHANGED vars
  BY <1>2 DEF vars
<1>3. QED
  BY <1>1, <1>2 DEF Next


LEMMA EofInvStep == TypeInv /\ ConnInv /\ [Next]_vars => EofInv'
<1> SUFFICES ASSUME TypeInv, ConnInv, [Next]_vars PROVE EofInv'
  OBVIOUS
<1> USE DEF TypeInv, TypeOK, ConnInv, FinInv, EofInv, MainGoesTo, RcvGoesTo, tcpVars, processVars
<1>1. ASSUME NEW p \in Peer, Typing(p) \/ Main(p) \/ Receiver(p) \/ ResetArrives(p) PROVE EofInv'
  <2>1. CASE Key(p)
    BY <2>1 DEF Key
  <2>2. CASE Backspace(p)
    BY <2>2 DEF Backspace
  <2>3. CASE Enter(p)
    BY <2>3 DEF Enter
  <2>4. CASE Fgets(p)
    BY <2>4 DEF Fgets
  <2>5. CASE Eof(p)
    BY <2>5 DEF Eof
  <2>6. CASE HostListens
    BY <2>6 DEF HostListens
  <2>7. CASE HostAccepts
    BY <2>7 DEF HostAccepts, SetupInv, Ended
  <2>8. CASE ClientConnects
    BY <2>8 DEF ClientConnects, SetupInv, Ended
  <2>9. CASE SetupFails(p)
    BY <2>9 DEF SetupFails, ProcessEnds, SocketClosed, ResetSentTo
  <2>10. CASE StartReceiver(p)
    BY <2>10 DEF StartReceiver
  <2>11. CASE SaveTerminal(p)
    BY <2>11 DEF SaveTerminal
  <2>12. CASE RawTerminal(p)
    BY <2>12 DEF RawTerminal
  <2>13. CASE SendOk(p)
    BY <2>13 DEF SendOk
  <2>14. CASE SendFails(p)
    BY <2>14 DEF SendFails
  <2>15. CASE SendSigpipe(p)
    BY <2>15 DEF SendSigpipe, ProcessEnds, SocketClosed, ResetSentTo
  <2>16. CASE ShowOwnLine(p)
    BY <2>16 DEF ShowOwnLine
  <2>17. CASE ResetInput(p)
    BY <2>17 DEF ResetInput
  <2>18. CASE Bye
    BY <2>18 DEF Bye
  <2>19. CASE MainShutdown(p)
    BY <2>19 DEF MainShutdown, SocketShut
  <2>20. CASE MainClose(p)
    BY <2>20 DEF MainClose, SocketClosed, ResetSentTo
  <2>21. CASE MainRestore(p)
    BY <2>21 DEF MainRestore
  <2>22. CASE MainReturns(p)
    BY <2>22 DEF MainReturns, ProcessEnds, SocketClosed, ResetSentTo
  <2>23. CASE Recv(p)
    BY <2>23 DEF Recv
  <2>24. CASE RecvEof(p)
    BY <2>24 DEF RecvEof, AtEof, Broken
  <2>25. CASE RecvError(p)
    BY <2>25 DEF RecvError
  <2>26. CASE ShowText(p)
    BY <2>26 DEF ShowText
  <2>27. CASE ShowEnd(p)
    BY <2>27 DEF ShowEnd
  <2>28. CASE RcvShutdown(p)
    BY <2>28 DEF RcvShutdown, SocketShut
  <2>29. CASE RcvClose(p)
    BY <2>29 DEF RcvClose, SocketClosed, ResetSentTo
  <2>30. CASE RcvRestore(p)
    BY <2>30 DEF RcvRestore
  <2>31. CASE RcvExits(p)
    BY <2>31 DEF RcvExits, ProcessEnds, SocketClosed, ResetSentTo
  <2>32. CASE ResetArrives(p)
    BY <2>32 DEF ResetArrives
  <2>33. QED
    BY <1>1, <2>1, <2>2, <2>3, <2>4, <2>5, <2>6, <2>7, <2>8, <2>9, <2>10, <2>11, <2>12, <2>13, <2>14, <2>15, <2>16, <2>17, <2>18, <2>19, <2>20, <2>21, <2>22, <2>23, <2>24, <2>25, <2>26, <2>27, <2>28, <2>29, <2>30, <2>31, <2>32 DEF Typing, Setup, Main, Receiver
<1>2. CASE UNCHANGED vars
  BY <1>2 DEF vars
<1>3. QED
  BY <1>1, <1>2 DEF Next


LEMMA BufferInvStep == TypeInv /\ ConnInv /\ [Next]_vars => BufferInv'
<1> SUFFICES ASSUME TypeInv, ConnInv, [Next]_vars PROVE BufferInv'
  OBVIOUS
<1> USE DEF TypeInv, TypeOK, ConnInv, BufferInv, MainGoesTo, RcvGoesTo, tcpVars, processVars
<1>1. ASSUME NEW p \in Peer, Typing(p) \/ Main(p) \/ Receiver(p) \/ ResetArrives(p) PROVE BufferInv'
  <2>1. CASE Key(p)
    BY <2>1 DEF Key
  <2>2. CASE Backspace(p)
    BY <2>2 DEF Backspace
  <2>3. CASE Enter(p)
    BY <2>3 DEF Enter
  <2>4. CASE Fgets(p)
    BY <2>4 DEF Fgets
  <2>5. CASE Eof(p)
    BY <2>5 DEF Eof
  <2>6. CASE HostListens
    BY <2>6 DEF HostListens
  <2>7. CASE HostAccepts
    BY <2>7 DEF HostAccepts
  <2>8. CASE ClientConnects
    BY <2>8 DEF ClientConnects
  <2>9. CASE SetupFails(p)
    BY <2>9 DEF SetupFails, ProcessEnds, SocketClosed, ResetSentTo
  <2>10. CASE StartReceiver(p)
    BY <2>10 DEF StartReceiver, SetupInv
  <2>11. CASE SaveTerminal(p)
    BY <2>11 DEF SaveTerminal
  <2>12. CASE RawTerminal(p)
    BY <2>12 DEF RawTerminal
  <2>13. CASE SendOk(p)
    BY <2>13 DEF SendOk
  <2>14. CASE SendFails(p)
    BY <2>14 DEF SendFails
  <2>15. CASE SendSigpipe(p)
    BY <2>15 DEF SendSigpipe, ProcessEnds, SocketClosed, ResetSentTo
  <2>16. CASE ShowOwnLine(p)
    BY <2>16 DEF ShowOwnLine
  <2>17. CASE ResetInput(p)
    BY <2>17 DEF ResetInput
  <2>18. CASE Bye
    BY <2>18 DEF Bye
  <2>19. CASE MainShutdown(p)
    BY <2>19 DEF MainShutdown, SocketShut
  <2>20. CASE MainClose(p)
    BY <2>20 DEF MainClose, SocketClosed, ResetSentTo
  <2>21. CASE MainRestore(p)
    BY <2>21 DEF MainRestore
  <2>22. CASE MainReturns(p)
    BY <2>22 DEF MainReturns, ProcessEnds, SocketClosed, ResetSentTo
  <2>23. CASE Recv(p)
    <3>1. UNCHANGED <<main, input>>
      BY <2>23 DEF Recv
    <3>2. PICK n \in 1..Len(inbox[p]) :
             /\ chunk' = [chunk EXCEPT ![p] = SubSeq(inbox[p], 1, n)]
             /\ RcvGoesTo(p, IF Text(SubSeq(inbox[p], 1, n)) = ExitLine THEN "exit" ELSE "show")
      BY <2>23 DEF Recv
    <3>3. SubSeq(inbox[p], 1, n) # <<>>
      BY <3>2, ReceivedPart
    <3>4. \E pc \in {"exit", "show"} : rcv' = [rcv EXCEPT ![p] = pc]
      BY <3>2
    <3>5. QED
      BY <3>1, <3>2, <3>3, <3>4
  <2>24. CASE RecvEof(p)
    BY <2>24 DEF RecvEof, AtEof, Broken
  <2>25. CASE RecvError(p)
    BY <2>25 DEF RecvError
  <2>26. CASE ShowText(p)
    BY <2>26 DEF ShowText
  <2>27. CASE ShowEnd(p)
    BY <2>27 DEF ShowEnd
  <2>28. CASE RcvShutdown(p)
    BY <2>28 DEF RcvShutdown, SocketShut
  <2>29. CASE RcvClose(p)
    BY <2>29 DEF RcvClose, SocketClosed, ResetSentTo
  <2>30. CASE RcvRestore(p)
    BY <2>30 DEF RcvRestore
  <2>31. CASE RcvExits(p)
    BY <2>31 DEF RcvExits, ProcessEnds, SocketClosed, ResetSentTo
  <2>32. CASE ResetArrives(p)
    BY <2>32 DEF ResetArrives
  <2>33. QED
    BY <1>1, <2>1, <2>2, <2>3, <2>4, <2>5, <2>6, <2>7, <2>8, <2>9, <2>10, <2>11, <2>12, <2>13, <2>14, <2>15, <2>16, <2>17, <2>18, <2>19, <2>20, <2>21, <2>22, <2>23, <2>24, <2>25, <2>26, <2>27, <2>28, <2>29, <2>30, <2>31, <2>32 DEF Typing, Setup, Main, Receiver
<1>2. CASE UNCHANGED vars
  BY <1>2 DEF vars
<1>3. QED
  BY <1>1, <1>2 DEF Next


LEMMA ListenInvStep == TypeInv /\ ConnInv /\ [Next]_vars => ListenInv'
<1> SUFFICES ASSUME TypeInv, ConnInv, [Next]_vars PROVE ListenInv'
  OBVIOUS
<1> USE DEF TypeInv, TypeOK, ConnInv, SetupInv, ListenInv, MainGoesTo, RcvGoesTo, tcpVars, processVars, Ended
<1>1. ASSUME NEW p \in Peer, Typing(p) \/ Main(p) \/ Receiver(p) \/ ResetArrives(p) PROVE ListenInv'
  <2>1. CASE Key(p)
    BY <2>1 DEF Key
  <2>2. CASE Backspace(p)
    BY <2>2 DEF Backspace
  <2>3. CASE Enter(p)
    BY <2>3 DEF Enter
  <2>4. CASE Fgets(p)
    BY <2>4 DEF Fgets
  <2>5. CASE Eof(p)
    BY <2>5 DEF Eof
  <2>6. CASE HostListens
    BY <2>6 DEF HostListens
  <2>7. CASE HostAccepts
    BY <2>7 DEF HostAccepts
  <2>8. CASE ClientConnects
    BY <2>8 DEF ClientConnects
  <2>9. CASE SetupFails(p)
    BY <2>9 DEF SetupFails, ProcessEnds, SocketClosed, ResetSentTo
  <2>10. CASE StartReceiver(p)
    BY <2>10 DEF StartReceiver
  <2>11. CASE SaveTerminal(p)
    BY <2>11 DEF SaveTerminal
  <2>12. CASE RawTerminal(p)
    BY <2>12 DEF RawTerminal
  <2>13. CASE SendOk(p)
    <3>1. sock["host"] = "open" \/ sock["client"] = "open"
      BY <2>13 DEF SendOk
    <3>2. main' = [main EXCEPT ![p] = "show"] /\ main[p] = "send"
      BY <2>13 DEF SendOk
    <3>3. UNCHANGED listening
      BY <2>13 DEF SendOk
    <3>4. main["host"] # "start"
      BY <2>13, <3>1 DEF SendOk
    <3>5. QED
      BY <3>2, <3>3, <3>4
  <2>14. CASE SendFails(p)
    BY <2>14 DEF SendFails
  <2>15. CASE SendSigpipe(p)
    BY <2>15 DEF SendSigpipe, ProcessEnds, SocketClosed, ResetSentTo
  <2>16. CASE ShowOwnLine(p)
    BY <2>16 DEF ShowOwnLine
  <2>17. CASE ResetInput(p)
    BY <2>17 DEF ResetInput
  <2>18. CASE Bye
    BY <2>18 DEF Bye
  <2>19. CASE MainShutdown(p)
    BY <2>19 DEF MainShutdown, SocketShut
  <2>20. CASE MainClose(p)
    BY <2>20 DEF MainClose, SocketClosed, ResetSentTo
  <2>21. CASE MainRestore(p)
    BY <2>21 DEF MainRestore
  <2>22. CASE MainReturns(p)
    BY <2>22 DEF MainReturns, ProcessEnds, SocketClosed, ResetSentTo
  <2>23. CASE Recv(p)
    BY <2>23 DEF Recv
  <2>24. CASE RecvEof(p)
    BY <2>24 DEF RecvEof, AtEof, Broken
  <2>25. CASE RecvError(p)
    BY <2>25 DEF RecvError
  <2>26. CASE ShowText(p)
    BY <2>26 DEF ShowText
  <2>27. CASE ShowEnd(p)
    BY <2>27 DEF ShowEnd
  <2>28. CASE RcvShutdown(p)
    BY <2>28 DEF RcvShutdown, SocketShut
  <2>29. CASE RcvClose(p)
    BY <2>29 DEF RcvClose, SocketClosed, ResetSentTo
  <2>30. CASE RcvRestore(p)
    BY <2>30 DEF RcvRestore
  <2>31. CASE RcvExits(p)
    BY <2>31 DEF RcvExits, ProcessEnds, SocketClosed, ResetSentTo
  <2>32. CASE ResetArrives(p)
    BY <2>32 DEF ResetArrives
  <2>33. QED
    BY <1>1, <2>1, <2>2, <2>3, <2>4, <2>5, <2>6, <2>7, <2>8, <2>9, <2>10, <2>11, <2>12, <2>13, <2>14, <2>15, <2>16, <2>17, <2>18, <2>19, <2>20, <2>21, <2>22, <2>23, <2>24, <2>25, <2>26, <2>27, <2>28, <2>29, <2>30, <2>31, <2>32 DEF Typing, Setup, Main, Receiver
<1>2. CASE UNCHANGED vars
  BY <1>2 DEF vars
<1>3. QED
  BY <1>1, <1>2 DEF Next

-------------------------------------------------------------------------------
(* The stream from one user to the other's screen.                         *)

LEMMA InitStream == Init => StreamInv
<1> SUFFICES ASSUME Init, NEW p \in Peer
             PROVE  \E lost \in Seq(Char) : Said(p, lost) /\ (Receiving(p) => lost = <<>>)
  BY DEF StreamInv
<1>1. Said(p, <<>>)
  BY EmptyStream DEF Said, Init
<1>2. QED
  BY <1>1, EmptyIsSeq

\* A step that moves no bytes and opens no end.
LEMMA QuietStream ==
  ASSUME StreamInv, UNCHANGED <<said, heard, chunk, inbox>>,
         \A q \in Peer : Receiving(q)' => Receiving(q)
  PROVE  StreamInv'
<1> SUFFICES ASSUME NEW p \in Peer
             PROVE  \E lost \in Seq(Char) : Said(p, lost)' /\ (Receiving(p)' => lost = <<>>)
  BY DEF StreamInv
<1>1. PICK lost \in Seq(Char) : Said(p, lost) /\ (Receiving(p) => lost = <<>>)
  BY DEF StreamInv
<1>2. Said(p, lost)'
  BY <1>1 DEF Said
<1>3. QED
  BY <1>1, <1>2

LEMMA ListenStream == TypeInv /\ ConnInv /\ HostListens => StreamInv'
<1> SUFFICES ASSUME TypeInv, ConnInv, HostListens, NEW p \in Peer
             PROVE  \E lost \in Seq(Char) : Said(p, lost)' /\ (Receiving(p)' => lost = <<>>)
  BY DEF StreamInv
<1>1. \A q \in Peer : said'[q] = <<>> /\ heard'[q] = <<>> /\ chunk'[q] = <<>> /\ inbox'[q] = <<>>
  BY DEF ConnInv, ListenInv, HostListens
<1>2. Said(p, <<>>)'
  BY <1>1, EmptyStream DEF Said
<1>3. QED
  BY <1>2, EmptyIsSeq

\* A process that ends takes no more bytes in.
LEMMA EndStream ==
  ASSUME TypeInv, StreamInv, NEW p \in Peer, NEW how \in Ended, ProcessEnds(p, how),
         p = "client" /\ sock[p] = "none" => ~listening
  PROVE  StreamInv'
<1> SUFFICES ASSUME NEW q \in Peer
             PROVE  \E lost \in Seq(Char) : Said(q, lost)' /\ (Receiving(q)' => lost = <<>>)
  BY DEF StreamInv
<1>1. PICK lost \in Seq(Char) : Said(q, lost) /\ (Receiving(q) => lost = <<>>)
  BY DEF StreamInv
<1>2. UNCHANGED <<said, heard>>
  BY DEF ProcessEnds
<1>3. CASE q # p
  <2>1. chunk'[q] = chunk[q] /\ inbox'[q] = inbox[q] /\ sock'[q] = sock[q]
    BY <1>3 DEF ProcessEnds, SocketClosed, TypeInv, TypeOK
  <2>2. listening' => listening
    BY DEF ProcessEnds
  <2>3. Said(q, lost)'
    BY <1>1, <1>2, <2>1 DEF Said
  <2>4. Receiving(q)' => Receiving(q)
    BY <2>1, <2>2 DEF Receiving
  <2>5. QED
    BY <1>1, <2>3, <2>4
<1>4. CASE q = p
  <2>1. chunk'[q] = <<>> /\ inbox'[q] = <<>>
    BY <1>4 DEF ProcessEnds, TypeInv, TypeOK
  <2>2. ~Receiving(q)'
    BY <1>4 DEF Receiving, ProcessEnds, SocketClosed, TypeInv, TypeOK
  <2>3. heard[q] \in Seq(Char) /\ chunk[q] \in Seq(Char) /\ inbox[q] \in Seq(Char)
    BY DEF TypeInv, TypeOK
  <2>4. PICK held \in Seq(Char) :
          Stream(heard[q], <<>>, <<>>, held) = Stream(heard[q], chunk[q], inbox[q], lost)
    <3>1. chunk[q] \o (inbox[q] \o lost) \in Seq(Char)
      BY <2>3, CollapseStream
    <3>2. Stream(heard[q], <<>>, <<>>, chunk[q] \o (inbox[q] \o lost))
            = Stream(heard[q], chunk[q], inbox[q], lost)
      BY <2>3, CollapseStream
    <3>3. QED
      BY <3>1, <3>2
  <2>5. Said(q, held)'
    BY <1>1, <1>2, <2>1, <2>4 DEF Said
  <2>6. QED
    BY <2>2, <2>4, <2>5
<1>5. QED
  BY <1>3, <1>4

LEMMA SendStream ==
  ASSUME TypeInv, StreamInv, NEW p \in Peer, SendOk(p)
  PROVE  StreamInv'
<1> SUFFICES ASSUME NEW q \in Peer
             PROVE  \E lost \in Seq(Char) : Said(q, lost)' /\ (Receiving(q)' => lost = <<>>)
  BY DEF StreamInv
<1>1. PICK lost \in Seq(Char) : Said(q, lost) /\ (Receiving(q) => lost = <<>>)
  BY DEF StreamInv
<1>2. UNCHANGED <<heard, chunk, sock, listening>>
  BY DEF SendOk
<1>3. Receiving(q)' <=> Receiving(q)
  BY <1>2 DEF Receiving
<1>4. CASE q = p
  <2>1. said'[Other(q)] = said[Other(q)] /\ inbox'[q] = inbox[q]
    BY <1>4 DEF SendOk, TypeInv, TypeOK
  <2>2. Said(q, lost)'
    BY <1>1, <1>2, <2>1 DEF Said
  <2>3. QED
    BY <1>1, <1>3, <2>2
<1>5. CASE q = Other(p)
  <2>1. Other(q) = p
    BY <1>5
  <2>2. said'[p] = said[p] \o input[p]
    BY DEF SendOk, TypeInv, TypeOK
  <2>3. heard[q] \in Seq(Char) /\ chunk[q] \in Seq(Char) /\ inbox[q] \in Seq(Char)
        /\ input[p] \in Seq(Char)
    BY InputIsSeq DEF TypeInv, TypeOK
  <2>4. said[p] = Stream(heard[q], chunk[q], inbox[q], lost)
    BY <1>1, <2>1 DEF Said
  <2>5. CASE Receiving(q)
    <3>1. inbox'[q] = inbox[q] \o input[p]
      BY <1>5, <2>5 DEF SendOk, Receiving, TypeInv, TypeOK
    <3>2. said'[p] = Stream(heard[q], chunk[q], inbox[q] \o input[p], <<>>)
      <4>1. said[p] = Stream(heard[q], chunk[q], inbox[q], <<>>)
        BY <1>1, <2>4, <2>5
      <4>2. Stream(heard[q], chunk[q], inbox[q], <<>>) \o input[p]
              = Stream(heard[q], chunk[q], inbox[q] \o input[p], <<>>)
        <5>1. ArrivedMore(heard[q], chunk[q], inbox[q], input[p])
          BY <2>3, ExtendStream
        <5>2. QED
          BY <5>1 DEF ArrivedMore
      <4>3. QED
        BY <2>2, <4>1, <4>2
    <3>3. Said(q, <<>>)'
      BY <1>2, <2>1, <3>1, <3>2 DEF Said
    <3>4. QED
      BY <3>3, EmptyIsSeq
  <2>6. CASE ~Receiving(q)
    <3>1. inbox' = inbox
      BY <1>5, <2>6 DEF SendOk, Receiving
    <3>2. PICK more \in Seq(Char) : said'[p] = Stream(heard[q], chunk[q], inbox[q], more)
      <4>1. lost \o input[p] \in Seq(Char)
        BY <2>3, ExtendStream
      <4>2. Stream(heard[q], chunk[q], inbox[q], lost) \o input[p]
              = Stream(heard[q], chunk[q], inbox[q], lost \o input[p])
        <5>1. LostMore(heard[q], chunk[q], inbox[q], lost, input[p])
          BY <2>3, ExtendStream
        <5>2. QED
          BY <5>1 DEF LostMore
      <4>3. said'[p] = Stream(heard[q], chunk[q], inbox[q], lost \o input[p])
        BY <2>2, <2>4, <4>2
      <4>4. QED
        BY <4>1, <4>3
    <3>3. Said(q, more)'
      BY <1>2, <2>1, <3>1, <3>2 DEF Said
    <3>4. QED
      BY <1>3, <2>6, <3>2, <3>3
  <2>7. QED
    BY <2>5, <2>6
<1>6. QED
  BY <1>4, <1>5

LEMMA RecvStream ==
  ASSUME TypeInv, ConnInv, StreamInv, NEW p \in Peer, Recv(p)
  PROVE  StreamInv'
<1> SUFFICES ASSUME NEW q \in Peer
             PROVE  \E lost \in Seq(Char) : Said(q, lost)' /\ (Receiving(q)' => lost = <<>>)
  BY DEF StreamInv
<1>1. PICK lost \in Seq(Char) : Said(q, lost) /\ (Receiving(q) => lost = <<>>)
  BY DEF StreamInv
<1>2. UNCHANGED <<said, heard, sock, listening>>
  BY DEF Recv
<1>3. Receiving(q)' <=> Receiving(q)
  BY <1>2 DEF Receiving
<1>4. PICK n \in 1..Len(inbox[p]) :
         /\ chunk' = [chunk EXCEPT ![p] = SubSeq(inbox[p], 1, n)]
         /\ inbox' = [inbox EXCEPT ![p] = SubSeq(inbox[p], n + 1, Len(inbox[p]))]
  BY DEF Recv
<1>5. CASE q # p
  <2>1. chunk'[q] = chunk[q] /\ inbox'[q] = inbox[q]
    BY <1>4, <1>5 DEF TypeInv, TypeOK
  <2>2. Said(q, lost)'
    BY <1>1, <1>2, <2>1 DEF Said
  <2>3. QED
    BY <1>1, <1>3, <2>2
<1>6. CASE q = p
  <2> DEFINE b == inbox[p]
             part == SubSeq(b, 1, n)
             rest == SubSeq(b, n + 1, Len(b))
  <2>1. chunk'[p] = part /\ inbox'[p] = rest
    BY <1>4 DEF TypeInv, TypeOK
  <2>2. chunk[p] = <<>>
    BY DEF ConnInv, BufferInv, Recv
  <2>3. heard[p] \in Seq(Char) /\ b \in Seq(Char) /\ n \in 0..Len(b)
    BY <1>4 DEF TypeInv, TypeOK
  <2>4. Stream(heard[p], <<>> \o part, rest, lost) = Stream(heard[p], <<>>, b, lost)
    <3>1. Moved(heard[p], b, lost, n)
      BY <2>3, MoveToEmpty
    <3>2. QED
      BY <3>1 DEF Moved
  <2>5. <<>> \o part = part
    BY <2>3, SplitSeq, ConcatEmptySeq
  <2>6. Stream(heard[p], part, rest, lost) = Stream(heard[p], chunk[p], inbox[p], lost)
    BY <2>2, <2>4, <2>5
  <2> HIDE DEF part, rest
  <2>7. Said(q, lost)'
    BY <1>1, <1>2, <1>6, <2>1, <2>6 DEF Said
  <2>8. QED
    BY <1>1, <1>3, <2>7
<1>7. QED
  BY <1>5, <1>6

LEMMA ShowStream ==
  ASSUME TypeInv, StreamInv, NEW p \in Peer, ShowText(p)
  PROVE  StreamInv'
<1> SUFFICES ASSUME NEW q \in Peer
             PROVE  \E lost \in Seq(Char) : Said(q, lost)' /\ (Receiving(q)' => lost = <<>>)
  BY DEF StreamInv
<1>1. PICK lost \in Seq(Char) : Said(q, lost) /\ (Receiving(q) => lost = <<>>)
  BY DEF StreamInv
<1>2. UNCHANGED <<said, inbox, sock, listening>>
  BY DEF ShowText
<1>3. Receiving(q)' <=> Receiving(q)
  BY <1>2 DEF Receiving
<1>4. CASE q # p
  <2>1. chunk'[q] = chunk[q] /\ heard'[q] = heard[q]
    BY <1>4 DEF ShowText, TypeInv, TypeOK
  <2>2. Said(q, lost)'
    BY <1>1, <1>2, <2>1 DEF Said
  <2>3. QED
    BY <1>1, <1>3, <2>2
<1>5. CASE q = p
  <2>1. chunk'[p] = <<>> /\ heard'[p] = heard[p] \o chunk[p]
    BY DEF ShowText, TypeInv, TypeOK
  <2>2. heard[p] \in Seq(Char) /\ chunk[p] \in Seq(Char) /\ inbox[p] \in Seq(Char)
    BY DEF TypeInv, TypeOK
  <2>3. Stream(heard[p] \o chunk[p], <<>>, inbox[p], lost)
          = Stream(heard[p], chunk[p], inbox[p], lost)
    BY <2>2, JoinStream
  <2>4. Said(q, lost)'
    BY <1>1, <1>2, <1>5, <2>1, <2>3 DEF Said
  <2>5. QED
    BY <1>1, <1>3, <2>4
<1>6. QED
  BY <1>4, <1>5

LEMMA StreamStep == TypeInv /\ ConnInv /\ StreamInv /\ [Next]_vars => StreamInv'
<1> SUFFICES ASSUME TypeInv, ConnInv, StreamInv, [Next]_vars PROVE StreamInv'
  OBVIOUS
<1> USE DEF tcpVars, processVars
<1>1. ASSUME NEW p \in Peer, Typing(p) \/ Main(p) \/ Receiver(p) \/ ResetArrives(p)
      PROVE  StreamInv'
  <2> DEFINE Quiet == UNCHANGED <<said, heard, chunk, inbox>>
                      /\ \A q \in Peer : Receiving(q)' => Receiving(q)
  <2>0. Quiet => StreamInv'
    BY QuietStream
  <2>1. CASE Key(p)
    <3>1. Quiet
      BY <2>1 DEF Key, Receiving, TypeInv, TypeOK
    <3>2. QED
      BY <2>0, <3>1
  <2>2. CASE Backspace(p)
    <3>1. Quiet
      BY <2>2 DEF Backspace, Receiving, TypeInv, TypeOK
    <3>2. QED
      BY <2>0, <3>1
  <2>3. CASE Enter(p)
    <3>1. Quiet
      BY <2>3 DEF Enter, Receiving, TypeInv, TypeOK
    <3>2. QED
      BY <2>0, <3>1
  <2>4. CASE Fgets(p)
    <3>1. Quiet
      BY <2>4 DEF Fgets, Receiving, TypeInv, TypeOK
    <3>2. QED
      BY <2>0, <3>1
  <2>5. CASE Eof(p)
    <3>1. Quiet
      BY <2>5 DEF Eof, Receiving, TypeInv, TypeOK
    <3>2. QED
      BY <2>0, <3>1
  <2>6. CASE HostListens
    BY <2>6, ListenStream
  <2>7. CASE HostAccepts
    <3>1. Quiet
      BY <2>7 DEF HostAccepts, ConnInv, ListenInv, SetupInv, Receiving, TypeInv, TypeOK
    <3>2. QED
      BY <2>0, <3>1
  <2>8. CASE ClientConnects
    <3>1. Quiet
      BY <2>8 DEF ClientConnects, ConnInv, ListenInv, SetupInv, Receiving, TypeInv, TypeOK
    <3>2. QED
      BY <2>0, <3>1
  <2>9. CASE SetupFails(p)
    <3>1. p = "client" /\ sock[p] = "none" => ~listening
      BY <2>9 DEF SetupFails, ConnInv, SetupInv, ListenInv, Ended, Broken
    <3>2. QED
      BY <2>9, <3>1, EndStream DEF SetupFails, Ended
  <2>10. CASE StartReceiver(p)
    <3>1. Quiet
      BY <2>10 DEF StartReceiver, Receiving, TypeInv, TypeOK
    <3>2. QED
      BY <2>0, <3>1
  <2>11. CASE SaveTerminal(p)
    <3>1. Quiet
      BY <2>11 DEF SaveTerminal, Receiving, TypeInv, TypeOK
    <3>2. QED
      BY <2>0, <3>1
  <2>12. CASE RawTerminal(p)
    <3>1. Quiet
      BY <2>12 DEF RawTerminal, Receiving, TypeInv, TypeOK
    <3>2. QED
      BY <2>0, <3>1
  <2>13. CASE SendOk(p)
    BY <2>13, SendStream
  <2>14. CASE SendFails(p)
    <3>1. Quiet
      BY <2>14 DEF SendFails, Receiving, TypeInv, TypeOK
    <3>2. QED
      BY <2>0, <3>1
  <2>15. CASE SendSigpipe(p)
    <3>1. p = "client" /\ sock[p] = "none" => ~listening
      BY <2>15 DEF SendSigpipe, ConnInv, SetupInv, ListenInv, Ended, Broken
    <3>2. QED
      BY <2>15, <3>1, EndStream DEF SendSigpipe, Ended
  <2>16. CASE ShowOwnLine(p)
    <3>1. Quiet
      BY <2>16 DEF ShowOwnLine, Receiving, TypeInv, TypeOK
    <3>2. QED
      BY <2>0, <3>1
  <2>17. CASE ResetInput(p)
    <3>1. Quiet
      BY <2>17 DEF ResetInput, Receiving, TypeInv, TypeOK
    <3>2. QED
      BY <2>0, <3>1
  <2>18. CASE Bye
    <3>1. Quiet
      BY <2>18 DEF Bye, Receiving, TypeInv, TypeOK
    <3>2. QED
      BY <2>0, <3>1
  <2>19. CASE MainShutdown(p)
    <3>1. Quiet
      BY <2>19 DEF MainShutdown, SocketShut, Receiving, TypeInv, TypeOK
    <3>2. QED
      BY <2>0, <3>1
  <2>20. CASE MainClose(p)
    <3>1. Quiet
      BY <2>20 DEF MainClose, SocketClosed, Receiving, TypeInv, TypeOK
    <3>2. QED
      BY <2>0, <3>1
  <2>21. CASE MainRestore(p)
    <3>1. Quiet
      BY <2>21 DEF MainRestore, Receiving, TypeInv, TypeOK
    <3>2. QED
      BY <2>0, <3>1
  <2>22. CASE MainReturns(p)
    <3>1. p = "client" /\ sock[p] = "none" => ~listening
      BY <2>22 DEF MainReturns, ConnInv, SetupInv, ListenInv, Ended, Broken
    <3>2. QED
      BY <2>22, <3>1, EndStream DEF MainReturns, Ended
  <2>23. CASE Recv(p)
    BY <2>23, RecvStream
  <2>24. CASE RecvEof(p)
    <3>1. Quiet
      BY <2>24 DEF RecvEof, AtEof, Broken, Receiving, TypeInv, TypeOK
    <3>2. QED
      BY <2>0, <3>1
  <2>25. CASE RecvError(p)
    <3>1. Quiet
      BY <2>25 DEF RecvError, Receiving, TypeInv, TypeOK
    <3>2. QED
      BY <2>0, <3>1
  <2>26. CASE ShowText(p)
    BY <2>26, ShowStream
  <2>27. CASE ShowEnd(p)
    <3>1. Quiet
      BY <2>27 DEF ShowEnd, Receiving, TypeInv, TypeOK
    <3>2. QED
      BY <2>0, <3>1
  <2>28. CASE RcvShutdown(p)
    <3>1. Quiet
      BY <2>28 DEF RcvShutdown, SocketShut, Receiving, TypeInv, TypeOK
    <3>2. QED
      BY <2>0, <3>1
  <2>29. CASE RcvClose(p)
    <3>1. Quiet
      BY <2>29 DEF RcvClose, SocketClosed, Receiving, TypeInv, TypeOK
    <3>2. QED
      BY <2>0, <3>1
  <2>30. CASE RcvRestore(p)
    <3>1. Quiet
      BY <2>30 DEF RcvRestore, Receiving, TypeInv, TypeOK
    <3>2. QED
      BY <2>0, <3>1
  <2>31. CASE RcvExits(p)
    <3>1. p = "client" /\ sock[p] = "none" => ~listening
      BY <2>31 DEF RcvExits, ConnInv, SetupInv, ListenInv, Ended, Broken
    <3>2. QED
      BY <2>31, <3>1, EndStream DEF RcvExits, Ended
  <2>32. CASE ResetArrives(p)
    <3>1. Quiet
      BY <2>32 DEF ResetArrives, Receiving
    <3>2. QED
      BY <2>0, <3>1
  <2>33. QED
    BY <1>1, <2>1, <2>2, <2>3, <2>4, <2>5, <2>6, <2>7, <2>8, <2>9, <2>10, <2>11, <2>12, <2>13, <2>14, <2>15, <2>16, <2>17, <2>18, <2>19, <2>20, <2>21, <2>22, <2>23, <2>24, <2>25, <2>26, <2>27, <2>28, <2>29, <2>30, <2>31, <2>32 DEF Typing, Setup, Main, Receiver
<1>2. CASE UNCHANGED vars
  BY <1>2, QuietStream DEF vars, Receiving
<1>3. QED
  BY <1>1, <1>2 DEF Next

-------------------------------------------------------------------------------
(* Lines with a CR come only from a pipe at the client.                    *)

LEMMA InitPlain == Init => PlainInv
  BY PlainEmpty DEF Init, PlainInv

\* A step that touches neither what is typed, nor what is sent or shown.
LEMMA QuietPlain ==
  ASSUME PlainInv, UNCHANGED <<input, said, heard, shown>>
  PROVE  PlainInv'
  BY DEF PlainInv, Plain

\* A step that empties input_buffer, or leaves it alone, and no more.
LEMMA EmptiedPlain ==
  ASSUME TypeInv, PlainInv, NEW p \in Peer, input' = [input EXCEPT ![p] = <<>>],
         UNCHANGED <<said, heard, shown>>
  PROVE  PlainInv'
<1> SUFFICES ASSUME NEW q \in Peer
             PROVE  /\ q = "host" \/ tty(q) => Plain(input'[q]) /\ Plain(said'[q])
                    /\ Plain(heard'[q]) => shown'[q] = heard'[q]
  BY DEF PlainInv, Plain
<1>1. input'[q] = input[q] \/ input'[q] = <<>>
  BY DEF TypeInv, TypeOK
<1>2. QED
  BY <1>1, PlainEmpty DEF PlainInv

LEMMA TypedPlain ==
  ASSUME TypeInv, PlainInv, NEW p \in Peer, Key(p) \/ Backspace(p) \/ Fgets(p)
  PROVE  PlainInv'
<1> SUFFICES ASSUME NEW q \in Peer
             PROVE  /\ q = "host" \/ tty(q) => Plain(input'[q]) /\ Plain(said'[q])
                    /\ Plain(heard'[q]) => shown'[q] = heard'[q]
  BY DEF PlainInv, Plain
<1>1. UNCHANGED <<said, heard, shown>>
  BY DEF Key, Backspace, Fgets, tcpVars
<1>2. /\ q = "host" \/ tty(q) => Plain(input[q]) /\ Plain(said[q])
      /\ Plain(heard[q]) => shown[q] = heard[q]
  BY DEF PlainInv
<1>3. CASE q # p
  <2>1. input'[q] = input[q]
    BY <1>3 DEF Key, Backspace, Fgets, TypeInv, TypeOK
  <2>2. QED
    BY <1>1, <1>2, <2>1
<1>4. CASE q = p
  <2>1. input[p] \in Seq(Char)
    BY InputIsSeq DEF TypeInv, TypeOK
  <2>2. CASE Key(p)
    <3>1. PICK c \in Char \ {CR} : input' = [input EXCEPT ![p] = Append(input[p], c)]
      BY <2>2 DEF Key
    <3>2. input'[p] = Append(input[p], c)
      BY <3>1 DEF TypeInv, TypeOK
    <3>3. QED
      BY <1>1, <1>2, <1>4, <2>1, <3>2, PlainKeys
  <2>3. CASE Backspace(p)
    <3>1. input'[p] = Front(input[p]) /\ input[p] # <<>>
      BY <2>3 DEF Backspace, TypeInv, TypeOK
    <3>2. QED
      BY <1>1, <1>2, <1>4, <2>1, <3>1, PlainKeys
  <2>4. CASE Fgets(p)
    <3>1. PICK l \in Line : (p = "host" => Plain(l)) /\ input' = [input EXCEPT ![p] = l]
      BY <2>4 DEF Fgets
    <3>2. input'[p] = l /\ ~tty(p)
      BY <2>4, <3>1 DEF Fgets, TypeInv, TypeOK
    <3>3. QED
      BY <1>1, <1>2, <1>4, <3>1, <3>2
  <2>5. QED
    BY <2>2, <2>3, <2>4
<1>5. QED
  BY <1>3, <1>4

LEMMA SentPlain ==
  ASSUME TypeInv, PlainInv, NEW p \in Peer, SendOk(p)
  PROVE  PlainInv'
<1> SUFFICES ASSUME NEW q \in Peer
             PROVE  /\ q = "host" \/ tty(q) => Plain(input'[q]) /\ Plain(said'[q])
                    /\ Plain(heard'[q]) => shown'[q] = heard'[q]
  BY DEF PlainInv, Plain
<1>1. UNCHANGED <<input, heard, shown>> /\ said' = [said EXCEPT ![p] = said[p] \o input[p]]
  BY DEF SendOk
<1>2. said'[q] = said[q] \/ said'[q] = said[q] \o input[q]
  BY <1>1 DEF TypeInv, TypeOK
<1>3. said[q] \in Seq(Char) /\ input[q] \in Seq(Char)
  BY InputIsSeq DEF TypeInv, TypeOK
<1>4. QED
  BY <1>1, <1>2, <1>3, PlainConcat DEF PlainInv

LEMMA ShownPlain ==
  ASSUME TypeInv, PlainInv, NEW p \in Peer, ShowText(p)
  PROVE  PlainInv'
<1> SUFFICES ASSUME NEW q \in Peer
             PROVE  /\ q = "host" \/ tty(q) => Plain(input'[q]) /\ Plain(said'[q])
                    /\ Plain(heard'[q]) => shown'[q] = heard'[q]
  BY DEF PlainInv, Plain
<1>1. UNCHANGED <<input, said>>
  BY DEF ShowText
<1>2. /\ heard' = [heard EXCEPT ![p] = heard[p] \o chunk[p]]
      /\ shown' = [shown EXCEPT ![p] = shown[p] \o Text(chunk[p])]
  BY DEF ShowText
<1>3. \/ heard'[q] = heard[q] /\ shown'[q] = shown[q]
      \/ heard'[q] = heard[q] \o chunk[q] /\ shown'[q] = shown[q] \o Text(chunk[q])
  BY <1>2 DEF TypeInv, TypeOK
<1>4. heard[q] \in Seq(Char) /\ chunk[q] \in Seq(Char)
  BY DEF TypeInv, TypeOK
<1>5. Plain(heard[q] \o chunk[q]) => Plain(heard[q]) /\ Text(chunk[q]) = chunk[q]
  BY <1>4, PlainConcat, TextIsSeq
<1>6. QED
  BY <1>1, <1>3, <1>5 DEF PlainInv

LEMMA PlainStep == TypeInv /\ PlainInv /\ [Next]_vars => PlainInv'
<1> SUFFICES ASSUME TypeInv, PlainInv, [Next]_vars PROVE PlainInv'
  OBVIOUS
<1>1. ASSUME NEW p \in Peer, Typing(p) \/ Main(p) \/ Receiver(p) \/ ResetArrives(p)
      PROVE  PlainInv'
  <2> DEFINE quiet == UNCHANGED <<input, said, heard, shown>>
             emptied == /\ input' = [input EXCEPT ![p] = <<>>]
                        /\ UNCHANGED <<said, heard, shown>>
  <2>1. CASE Key(p) \/ Backspace(p) \/ Fgets(p)
    BY <2>1, TypedPlain
  <2>2. CASE SendOk(p)
    BY <2>2, SentPlain
  <2>3. CASE ShowText(p)
    BY <2>3, ShownPlain
  <2>4. CASE ~(Key(p) \/ Backspace(p) \/ Fgets(p)) /\ ~SendOk(p) /\ ~ShowText(p)
    <3>1. Typing(p) => quiet
      BY <2>4 DEF Typing, Enter, Eof, tcpVars
    <3>2. Setup(p) => quiet \/ emptied
      BY DEF Setup, HostListens, HostAccepts, ClientConnects, SetupFails, ProcessEnds,
             StartReceiver, SaveTerminal, RawTerminal, tcpVars
    <3>3. Main(p) => quiet \/ emptied
      BY <2>4, <3>2 DEF Main, SendFails, SendSigpipe, ShowOwnLine, ResetInput, Bye, MainShutdown,
             MainClose, MainRestore, MainReturns, ProcessEnds, tcpVars
    <3>4. Receiver(p) => quiet \/ emptied
      BY <2>4 DEF Receiver, Recv, RecvEof, RecvError, ShowEnd, RcvShutdown, RcvClose,
             RcvRestore, RcvExits, ProcessEnds, tcpVars
    <3>5. ResetArrives(p) => quiet
      BY DEF ResetArrives, processVars
    <3>6. QED
      BY <1>1, <3>1, <3>3, <3>4, <3>5, QuietPlain, EmptiedPlain
  <2>5. QED
    BY <2>1, <2>2, <2>3, <2>4
<1>2. CASE UNCHANGED vars
  BY <1>2, QuietPlain DEF vars
<1>3. QED
  BY <1>1, <1>2 DEF Next

-------------------------------------------------------------------------------
(* The theorems about what the screens show.                               *)

ChatInv == TypeInv /\ ConnInv /\ StreamInv /\ PlainInv

LEMMA InductiveChat == Spec => []ChatInv
<1>1. Init => ChatInv
  BY InitType, InitConn, InitStream, InitPlain DEF ChatInv
<1>2. ChatInv /\ [Next]_vars => ChatInv'
  <2>1. TypeInv /\ ConnInv /\ [Next]_vars => ConnInv'
    BY SetupInvStep, FinInvStep, EofInvStep, BufferInvStep, ListenInvStep, Zenon DEF ConnInv
  <2>2. QED
    BY <2>1, StepType, StreamStep, PlainStep DEF ChatInv
<1>3. QED
  BY <1>1, <1>2, PTL DEF Spec

\* A receiver that finds the end of an orderly connection, its own side open, has
\* been through everything the other ever sent: no byte is left in its buffer or
\* its socket, and none was lost.  All of it was put on the screen, unless the
\* other is a client that sent a CR from a pipe.
THEOREM AllShownAtEnd == Spec => []EverythingShown
<1>1. ChatInv => EverythingShown
  <2> SUFFICES ASSUME ChatInv, NEW p \in Peer, rcv[p] = "eof", sock[p] = "open", err[p] = "none"
               PROVE  /\ heard[p] = said[Other(p)]
                      /\ p = "client" \/ tty("client") \/ Plain(said["client"])
                           => shown[p] = said[Other(p)]
    BY DEF EverythingShown
  <2>1. PICK lost \in Seq(Char) : Said(p, lost) /\ (Receiving(p) => lost = <<>>)
    BY DEF ChatInv, StreamInv
  <2>2. lost = <<>>
    BY <2>1 DEF Receiving
  <2>3. chunk[p] = <<>> /\ inbox[p] = <<>>
    BY DEF ChatInv, ConnInv, BufferInv, EofInv
  <2>4. heard[p] \in Seq(Char)
    BY DEF ChatInv, TypeInv, TypeOK
  <2>5. said[Other(p)] = Stream(heard[p], <<>>, <<>>, <<>>)
    BY <2>1, <2>2, <2>3 DEF Said
  <2>6. heard[p] = said[Other(p)]
    BY <2>4, <2>5, ShownStream
  <2>7. ASSUME p = "client" \/ tty("client") \/ Plain(said["client"])
        PROVE  Plain(said[Other(p)])
    BY <2>7 DEF ChatInv, PlainInv
  <2>8. Plain(heard[p]) => shown[p] = heard[p]
    BY DEF ChatInv, PlainInv
  <2>9. QED
    BY <2>6, <2>7, <2>8
<1>2. QED
  BY <1>1, InductiveChat, PTL

\* The init state and every step of Chat are an initial state and a step, or a
\* stutter, of ChatChannels: a line that is sent is said, a chunk that is
\* printed is the next piece of what the other has said, up to its first CR.
LEMMA ChatInit == Init => Channels!Init
  BY DEF Init, Channels!Init, Channels!Peer

LEMMA SaysLine ==
  ASSUME ChatInv, NEW p \in Peer, SendOk(p)
  PROVE  Channels!Say(p)
<1>1. input[p] \in Line
  BY DEF ChatInv, ConnInv, BufferInv, SendOk
<1>2. said' = [said EXCEPT ![p] = @ \o input[p]] /\ UNCHANGED <<heard, shown>>
  BY DEF SendOk
<1>3. QED
  BY <1>1, <1>2 DEF Channels!Say

LEMMA ShowsNext ==
  ASSUME ChatInv, NEW p \in Peer, ShowText(p)
  PROVE  Channels!Show(p)
<1> DEFINE held == heard[p]
           words == said[Other(p)]
<1>1. PICK lost \in Seq(Char) : Said(p, lost)
  BY DEF ChatInv, StreamInv
<1>2. held \in Seq(Char) /\ chunk[p] \in Seq(Char) /\ inbox[p] \in Seq(Char)
  BY DEF ChatInv, TypeInv, TypeOK
<1>3. chunk[p] # <<>>
  BY DEF ChatInv, ConnInv, BufferInv, ShowText
<1>4. /\ heard' = [heard EXCEPT ![p] = heard[p] \o chunk[p]]
      /\ shown' = [shown EXCEPT ![p] = shown[p] \o Text(chunk[p])]
      /\ UNCHANGED said
  BY DEF ShowText
<1>5. PICK n \in Len(held) + 1 .. Len(words) : NextPiece(held, chunk[p], words, n)
  <2>1. /\ Len(held) + Len(chunk[p]) \in Len(held) + 1 .. Len(words)
        /\ NextPiece(held, chunk[p], words, Len(held) + Len(chunk[p]))
    BY <1>1, <1>2, <1>3, PieceOfStream DEF Said
  <2>2. QED
    BY <2>1
<1>6. chunk[p] = SubSeq(words, Len(held) + 1, n)
  BY <1>5 DEF NextPiece
<1>7. Text(chunk[p]) = Channels!Cut(chunk[p], CR)
  BY DEF Text, Cut, Channels!Cut, Cardinality, Channels!Cardinality
<1>8. QED
  BY <1>4, <1>6, <1>7 DEF Channels!Show, Channels!Other

LEMMA ChatStep == ChatInv /\ [Next]_vars => [Channels!Next]_(Channels!chat)
<1> SUFFICES ASSUME ChatInv, [Next]_vars PROVE [Channels!Next]_(Channels!chat)
  OBVIOUS
<1> USE DEF Channels!chat
<1>1. ASSUME NEW p \in Peer, Typing(p) \/ Main(p) \/ Receiver(p) \/ ResetArrives(p)
      PROVE  [Channels!Next]_(Channels!chat)
  <2>1. CASE SendOk(p)
    BY <2>1, SaysLine DEF Channels!Next, Channels!Peer
  <2>2. CASE ShowText(p)
    BY <2>2, ShowsNext DEF Channels!Next, Channels!Peer
  <2>3. CASE ~SendOk(p) /\ ~ShowText(p)
    <3>1. Typing(p) => UNCHANGED <<said, heard, shown>>
      BY DEF Typing, Key, Backspace, Enter, Fgets, Eof, tcpVars
    <3>2. Setup(p) => UNCHANGED <<said, heard, shown>>
      BY DEF Setup, HostListens, HostAccepts, ClientConnects, SetupFails, ProcessEnds,
             StartReceiver, SaveTerminal, RawTerminal, tcpVars
    <3>3. Main(p) => UNCHANGED <<said, heard, shown>>
      BY <2>3, <3>2 DEF Main, SendFails, SendSigpipe, ShowOwnLine, ResetInput, Bye, MainShutdown,
             MainClose, MainRestore, MainReturns, ProcessEnds, tcpVars
    <3>4. Receiver(p) => UNCHANGED <<said, heard, shown>>
      BY <2>3 DEF Receiver, Recv, RecvEof, RecvError, ShowEnd, RcvShutdown, RcvClose,
             RcvRestore, RcvExits, ProcessEnds, tcpVars
    <3>5. ResetArrives(p) => UNCHANGED <<said, heard, shown>>
      BY DEF ResetArrives
    <3>6. QED
      BY <1>1, <3>1, <3>3, <3>4, <3>5
  <2>4. QED
    BY <2>1, <2>2, <2>3
<1>2. CASE UNCHANGED vars
  BY <1>2 DEF vars
<1>3. QED
  BY <1>1, <1>2 DEF Next

\* The chat implements ChatChannels: whatever TCP does to the stream and
\* however the four threads interleave, each screen shows the other's words in
\* order, nothing added and nothing skipped but what recv returns after a CR.
THEOREM ChatRefined == Spec => ChatSpec
<1>1. QED
  BY ChatInit, ChatStep, InductiveChat, PTL DEF Spec, ChatSpec, Channels!Spec
===============================================================================
