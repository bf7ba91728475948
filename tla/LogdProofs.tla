----------------------------- MODULE LogdProofs -----------------------------
(***************************************************************************)
(* Logd::run never gets out of step with the log, for every length of      *)
(* words, headers and messages and whatever the driver writes meanwhile.   *)
(*                                                                         *)
(* The messages of the log lie one behind the other (Layout).  A reader    *)
(* that looks for a magic word is outside of the legal ones, one that has  *)
(* found a magic word is at a message, and one that is to read a body is   *)
(* behind the header of a legal message (Parsed), also when it reads it    *)
(* past its buffer.                                                        *)
(***************************************************************************)
EXTENDS Logd, SequenceTheorems, FunctionTheorems, TLAPS

Message == [at : Nat \ {0}, length : 0..(MaxLength + 1)]

LogTypeOK ==
    /\ pc \in {"start", "open", "magic", "header", "body", "overrun", "ended", "exit"}
    /\ start \in Nat /\ pos \in Nat /\ cleared \in 0..Len(file)
    /\ length \in 0..MaxLength /\ printed \in Seq(Nat)
    /\ file \in Seq(Word) /\ rest \in Seq(Word) /\ log \in Seq(Message)
    /\ pc \in {"body", "overrun"} => HeaderRest <= pos
    /\ pc \in {"start", "open"} => printed = <<>>

\* Every message has its header in the log and its body there or still to be written;
\* no two of them overlap.
Layout ==
    /\ \A m \in Range(log) :
          /\ m.at + HeaderRest <= Len(file)
          /\ file[m.at] = Magic /\ file[m.at + 1] = m.length
          /\ End(m) <= Len(file) + Len(rest)
    /\ \A m1, m2 \in Range(log) : m1 = m2 \/ End(m1) < m2.at \/ End(m2) < m1.at

\* The messages behind which the reader is: while it is to read a body it has not
\* taken the header for read.
Mark == IF pc \in {"body", "overrun"} THEN pos - HeaderRest ELSE pos
Whole(k) == {m \in Ours : End(m) <= k}
Places(M) == {m.at : m \in M}
Increasing(s) == \A i, j \in DOMAIN s : i < j => s[i] < s[j]
Fitting(M) == \A m \in M : Fits(BodyWords(m.length))
Filled(s, k) == Range(s) = Places(Whole(k)) /\ Increasing(s) /\ Fitting(Whole(k))

AtPlace ==
    /\ pc = "magic" => \A m \in Ours : pos < m.at \/ End(m) <= pos
    /\ pc = "header" => \E m \in Range(log) : m.at = pos /\ m.at > start
    /\ pc = "body" => \E m \in Ours : m.at = pos - HeaderRest /\ m.length = length
    /\ pc = "overrun" => \E m \in Ours : m.at = pos - HeaderRest
                                         /\ ~Fits(BodyWords(m.length))

Parsed ==
    pc \notin {"start", "open"} =>
        /\ start <= pos /\ pos <= Len(file)
        /\ Clean => Filled(printed, Mark) /\ AtPlace

LogInv == LogTypeOK /\ Layout /\ Parsed

-----------------------------------------------------------------------------
(* Numbers, ranges and messages. *)

\* A body has a whole number of words.
LEMMA WordsNat == \A bytes \in Nat : (bytes + WordBytes - 1) \div WordBytes \in Nat
<1> TAKE bytes \in Nat
<1> DEFINE a == bytes + WordBytes - 1
<1>1. a \in Nat /\ WordBytes \in Nat \ {0}
  BY LogAssumption
<1> HIDE DEF a
<1>2. a \div WordBytes \in Nat
  BY <1>1
<1>3. QED
  BY <1>2 DEF a

LEMMA MessageParts ==
    ASSUME LogTypeOK
    PROVE  /\ MaxLength \in Nat /\ HeaderRest \in Nat \ {0}
           /\ Range(log) \subseteq Message /\ Ours \subseteq Range(log)
           /\ \A m \in Message :
                /\ m.at \in Nat \ {0} /\ m.length \in Nat
                /\ End(m) \in Nat /\ m.at + HeaderRest <= End(m)
                /\ End(m) = m.at + HeaderRest + BodyWords(m.length)
                /\ BodyWords(m.length) \in Nat
<1>1. MaxLength \in Nat /\ HeaderRest \in Nat \ {0}
  BY LogAssumption
<1>2. Range(log) \subseteq Message
  BY LenProperties, ElementOfSeq DEF LogTypeOK, Range
<1>3. Ours \subseteq Range(log)
  BY DEF Ours
<1>4. ASSUME NEW m \in Message
      PROVE  /\ m.at \in Nat \ {0} /\ m.length \in Nat
             /\ BodyWords(m.length) \in Nat
             /\ End(m) = m.at + HeaderRest + BodyWords(m.length)
  <2>1. m.at \in Nat \ {0} /\ m.length \in Nat
    BY <1>1 DEF Message
  <2>2. BodyWords(m.length) \in Nat
    BY <2>1, WordsNat DEF BodyWords
  <2>3. End(m) = m.at + HeaderRest + BodyWords(m.length)
    BY DEF End, BodyWords
  <2>4. QED
    BY <2>1, <2>2, <2>3
<1>5. ASSUME NEW m \in Message PROVE End(m) \in Nat /\ m.at + HeaderRest <= End(m)
  <2> DEFINE b == BodyWords(m.length)
  <2>1. m.at \in Nat /\ b \in Nat /\ End(m) = m.at + HeaderRest + b
    BY <1>4
  <2> HIDE DEF b
  <2>2. QED
    BY <1>1, <2>1
<1>6. QED
  BY <1>1, <1>2, <1>3, <1>4, <1>5

\* What is appended to a sequence joins its range.
LEMMA RangeAppended ==
    ASSUME NEW S, NEW s \in Seq(S), NEW e \in S
    PROVE  /\ Append(s, e) \in Seq(S)
           /\ Range(Append(s, e)) = Range(s) \cup {e}
<1>1. /\ Append(s, e) \in Seq(S) /\ Len(s) \in Nat /\ Len(Append(s, e)) = Len(s) + 1
      /\ Append(s, e)[Len(s) + 1] = e
      /\ \A i \in 1..Len(s) : Append(s, e)[i] = s[i]
      /\ DOMAIN s = 1..Len(s) /\ DOMAIN Append(s, e) = 1..(Len(s) + 1)
  BY AppendProperties, LenProperties
<1>2. 1..(Len(s) + 1) = 1..Len(s) \cup {Len(s) + 1}
  BY <1>1
<1>3. QED
  BY <1>1, <1>2 DEF Range

LEMMA IncreasingAppended ==
    ASSUME NEW s \in Seq(Nat), NEW e \in Nat, Increasing(s), \A x \in Range(s) : x < e
    PROVE  Increasing(Append(s, e))
<1>1. /\ Len(s) \in Nat /\ Append(s, e)[Len(s) + 1] = e
      /\ \A i \in 1..Len(s) : Append(s, e)[i] = s[i]
      /\ DOMAIN s = 1..Len(s) /\ DOMAIN Append(s, e) = 1..(Len(s) + 1)
  BY AppendProperties, LenProperties
<1>2. \A i \in 1..Len(s) : s[i] < e
  BY <1>1 DEF Range
<1>3. ASSUME NEW i \in 1..(Len(s) + 1), NEW j \in 1..(Len(s) + 1), i < j
      PROVE  Append(s, e)[i] < Append(s, e)[j]
  <2>1. i \in 1..Len(s) /\ (j \in 1..Len(s) \/ j = Len(s) + 1)
    BY <1>1, <1>3
  <2>2. QED
    BY <1>1, <1>2, <1>3, <2>1 DEF Increasing
<1>4. QED
  BY <1>1, <1>3 DEF Increasing

-----------------------------------------------------------------------------
(* The log. *)

\* What is written to the log goes behind its words.
LEMMA WordsStay ==
    ASSUME NEW s \in Seq(Word), NEW t \in Seq(Word)
    PROVE  /\ s \o t \in Seq(Word) /\ Len(s \o t) = Len(s) + Len(t)
           /\ Len(s) \in Nat /\ Len(t) \in Nat
           /\ \A i \in 1..Len(s) : (s \o t)[i] = s[i]
           /\ \A i \in 1..Len(t) : (s \o t)[Len(s) + i] = t[i]
<1>1. /\ s \o t \in Seq(Word) /\ Len(s \o t) = Len(s) + Len(t)
      /\ Len(s) \in Nat /\ Len(t) \in Nat
      /\ \A i \in 1..(Len(s) + Len(t)) : (s \o t)[i] = IF i <= Len(s) THEN s[i] ELSE t[i - Len(s)]
  BY ConcatProperties, LenProperties
<1>2. QED
  BY <1>1

\* The words of a header, and those of a body.
LEMMA HeaderWords ==
    ASSUME NEW w \in Lengths
    PROVE  /\ w \in 0..(MaxLength + 1)
           /\ Header(w) \in Seq(Word) /\ Len(Header(w)) = 1 + HeaderRest
           /\ Header(w)[1] = Magic /\ Header(w)[2] = w
<1>1. /\ MaxLength \in Nat /\ HeaderRest \in Nat \ {0} /\ w \in 0..(MaxLength + 1)
      /\ Magic \in Word /\ w \in Word /\ 0 \in Word
  BY LogAssumption DEF Magic, Word
<1> DEFINE h == <<Magic, w>>
           z == [i \in 1..(HeaderRest - 1) |-> 0]
<1>2. h \in Seq(Word) /\ Len(h) = 2 /\ h[1] = Magic /\ h[2] = w
  BY <1>1
<1>3. z \in Seq(Word) /\ Len(z) = HeaderRest - 1
  <2>1. HeaderRest - 1 \in Nat /\ z \in [1..(HeaderRest - 1) -> Word]
    BY <1>1
  <2>2. QED
    BY <2>1
<1>4. Header(w) = h \o z
  BY DEF Header
<1> HIDE DEF h, z
<1>5. /\ h \o z \in Seq(Word) /\ Len(h \o z) = Len(h) + Len(z)
      /\ \A i \in 1..Len(h) : (h \o z)[i] = h[i]
  BY <1>2, <1>3, WordsStay
<1>6. QED
  BY <1>1, <1>2, <1>3, <1>4, <1>5

LEMMA BodyWordsWritten ==
    ASSUME NEW w \in Nat, NEW b \in {0, Magic}
    PROVE  BodyOf(w, b) \in Seq(Word) /\ Len(BodyOf(w, b)) = (w + WordBytes - 1) \div WordBytes
<1> DEFINE n == (w + WordBytes - 1) \div WordBytes
<1>1. n \in Nat
  BY WordsNat
<1>2. b \in Word
  BY LogAssumption DEF Magic, Word
<1> HIDE DEF n
<1>3. [i \in 1..n |-> b] \in Seq(Word) /\ Len([i \in 1..n |-> b]) = n
  BY <1>1, <1>2
<1>4. BodyOf(w, b) = [i \in 1..n |-> b]
  BY DEF BodyOf, n
<1>5. QED
  BY <1>3, <1>4 DEF n

\* What a step of the driver does to the log: words are appended, and perhaps a message
\* that begins behind all the old ones.
Written(m) ==
    /\ m \in Message /\ m.at = Len(file) + 1
    /\ m.at + HeaderRest <= Len(file') /\ file'[m.at] = Magic /\ file'[m.at + 1] = m.length
    /\ End(m) = Len(file') + Len(rest')

Grown ==
    /\ file' \in Seq(Word) /\ rest' \in Seq(Word) /\ log' \in Seq(Message)
    /\ Len(file) <= Len(file') /\ \A i \in 1..Len(file) : file'[i] = file[i]
    /\ Len(file) + Len(rest) <= Len(file') + Len(rest')
    /\ \/ Range(log') = Range(log)
       \/ rest = <<>> /\ \E m : Written(m) /\ Range(log') = Range(log) \cup {m}

LEMMA HeaderGrows ==
    ASSUME LogTypeOK, NEW w \in Lengths, WriteHeader(w)
    PROVE  Grown
<1>1. PICK b \in {0, Magic} : rest' = BodyOf(w, b)
  BY DEF WriteHeader
<1> DEFINE m == [at |-> Len(file) + 1, length |-> w]
           h == Header(w)
<1>2. /\ file' = file \o h /\ log' = Append(log, m) /\ rest = <<>>
      /\ file \in Seq(Word) /\ log \in Seq(Message) /\ Len(file) \in Nat
  BY LenProperties DEF WriteHeader, LogTypeOK
<1>3. /\ MaxLength \in Nat /\ HeaderRest \in Nat \ {0} /\ w \in 0..(MaxLength + 1) /\ w \in Nat
      /\ h \in Seq(Word) /\ Len(h) = 1 + HeaderRest /\ h[1] = Magic /\ h[2] = w
  BY LogAssumption, HeaderWords
<1>4. m \in Message /\ m.at = Len(file) + 1 /\ m.length = w
  BY <1>2, <1>3 DEF Message
<1> HIDE DEF h, m
<1>5. /\ file' \in Seq(Word) /\ Len(file') = Len(file) + Len(h)
      /\ \A i \in 1..Len(file) : file'[i] = file[i]
      /\ file'[Len(file) + 1] = h[1] /\ file'[Len(file) + 2] = h[2]
  <2>1. /\ \A i \in 1..Len(h) : (file \o h)[Len(file) + i] = h[i]
        /\ file \o h \in Seq(Word) /\ Len(file \o h) = Len(file) + Len(h)
        /\ \A i \in 1..Len(file) : (file \o h)[i] = file[i]
    BY <1>2, <1>3, WordsStay
  <2>2. 1 \in 1..Len(h) /\ 2 \in 1..Len(h)
    BY <1>3
  <2>3. QED
    BY <1>2, <2>1, <2>2
<1>6. log' \in Seq(Message) /\ Range(log') = Range(log) \cup {m}
  BY <1>2, <1>4, RangeAppended
<1> DEFINE n == (w + WordBytes - 1) \div WordBytes
<1>7. rest' \in Seq(Word) /\ Len(rest') = n /\ n \in Nat
  BY <1>1, <1>3, BodyWordsWritten, WordsNat
<1>8. End(m) = m.at + HeaderRest + n
  BY <1>4 DEF End
<1> HIDE DEF n
<1>9. End(m) = Len(file') + Len(rest')
  BY <1>2, <1>3, <1>4, <1>5, <1>7, <1>8
<1>10. Written(m)
  BY <1>2, <1>3, <1>4, <1>5, <1>9 DEF Written
<1>11. Len(rest) = 0
  BY <1>2
<1>12. Len(file) <= Len(file') /\ Len(file) + Len(rest) <= Len(file') + Len(rest')
  BY <1>2, <1>3, <1>5, <1>7, <1>11
<1>13. QED
  BY <1>2, <1>5, <1>6, <1>7, <1>10, <1>12 DEF Grown

LEMMA BodyGrows ==
    ASSUME LogTypeOK, WriteBody
    PROVE  Grown
<1>1. file' = file \o rest /\ rest' = <<>> /\ log' = log /\ file \in Seq(Word) /\ rest \in Seq(Word)
  BY DEF WriteBody, LogTypeOK
<1>2. /\ file' \in Seq(Word) /\ Len(file') = Len(file) + Len(rest)
      /\ Len(file) \in Nat /\ Len(rest) \in Nat
      /\ \A i \in 1..Len(file) : file'[i] = file[i]
  BY <1>1, WordsStay
<1>3. rest' \in Seq(Word) /\ Len(rest') = 0
  BY <1>1
<1>4. QED
  BY <1>1, <1>2, <1>3 DEF Grown, LogTypeOK

LEMMA DriverGrows == LogTypeOK /\ Driver => Grown
<1> SUFFICES ASSUME LogTypeOK, Driver PROVE Grown
  OBVIOUS
<1>1. CASE Vanish
  BY <1>1, LenProperties DEF Vanish, Grown, LogTypeOK
<1>2. QED
  BY <1>1, HeaderGrows, BodyGrows DEF Driver

LEMMA LayoutStep == LogTypeOK /\ Layout /\ Grown => Layout'
<1> SUFFICES ASSUME LogTypeOK, Layout, Grown PROVE Layout'
  OBVIOUS
<1>0. /\ HeaderRest \in Nat \ {0} /\ Range(log) \subseteq Message
      /\ Len(file) \in Nat /\ Len(rest) \in Nat /\ Len(file') \in Nat /\ Len(rest') \in Nat
      /\ \A m \in Message : m.at \in Nat \ {0} /\ End(m) \in Nat /\ m.at + HeaderRest <= End(m)
  BY MessageParts, LenProperties DEF LogTypeOK, Grown
<1>1. ASSUME NEW m \in Range(log)
      PROVE  /\ m.at + HeaderRest <= Len(file')
             /\ file'[m.at] = Magic /\ file'[m.at + 1] = m.length
             /\ End(m) <= Len(file') + Len(rest')
  <2>1. /\ m.at + HeaderRest <= Len(file) /\ file[m.at] = Magic /\ file[m.at + 1] = m.length
        /\ End(m) <= Len(file) + Len(rest)
    BY DEF Layout
  <2>2. m.at \in 1..Len(file) /\ m.at + 1 \in 1..Len(file)
    BY <1>0, <2>1
  <2>3. /\ Len(file) <= Len(file') /\ Len(file) + Len(rest) <= Len(file') + Len(rest')
        /\ file'[m.at] = file[m.at] /\ file'[m.at + 1] = file[m.at + 1]
    BY <2>2 DEF Grown
  <2>4. m.at \in Nat /\ End(m) \in Nat
    BY <1>0
  <2> DEFINE e == End(m)
  <2> HIDE DEF e
  <2>5. e \in Nat /\ e <= Len(file) + Len(rest)
    BY <2>1, <2>4 DEF e
  <2>6. e <= Len(file') + Len(rest')
    BY <1>0, <2>3, <2>5
  <2>7. m.at + HeaderRest <= Len(file')
    BY <1>0, <2>1, <2>3, <2>4
  <2>8. QED
    BY <2>1, <2>3, <2>6, <2>7 DEF e
<1>2. CASE Range(log') = Range(log)
  BY <1>1, <1>2 DEF Layout, End
<1>3. ASSUME NEW m, rest = <<>>, Written(m), Range(log') = Range(log) \cup {m} PROVE Layout'
  <2>1. \A o \in Range(log) : End(o) < m.at
    <3> TAKE o \in Range(log)
    <3>1. End(o) <= Len(file) + Len(rest) /\ Len(rest) = 0 /\ End(o) \in Nat
      BY <1>0, <1>3 DEF Layout
    <3>2. QED
      BY <1>0, <1>3, <3>1 DEF Written
  <2>2. \A m1, m2 \in Range(log') : m1 = m2 \/ End(m1) < m2.at \/ End(m2) < m1.at
    BY <1>3, <2>1 DEF Layout
  <2>3. /\ m.at + HeaderRest <= Len(file') /\ file'[m.at] = Magic /\ file'[m.at + 1] = m.length
        /\ End(m) <= Len(file') + Len(rest')
    BY <1>0, <1>3 DEF Written
  <2>4. QED
    BY <1>1, <1>3, <2>2, <2>3 DEF Layout, End
<1>4. QED
  BY <1>2, <1>3 DEF Grown

\* A message that is begun is behind the end of the log.
LEMMA OursGrow ==
    ASSUME LogTypeOK, Grown, start' = start
    PROVE  /\ Ours \subseteq Ours' /\ Range(log) \subseteq Range(log')
           /\ \A m \in Range(log') : m \in Range(log) \/ m.at > Len(file)
           /\ \A m \in Ours' : m \in Ours \/ m.at > Len(file)
<1>0. Len(file) \in Nat
  BY LenProperties DEF LogTypeOK
<1>1. \A m \in Range(log') : m \in Range(log) \/ m.at > Len(file)
  BY <1>0 DEF Grown, Written
<1>2. Range(log) \subseteq Range(log')
  BY DEF Grown
<1>3. QED
  BY <1>1, <1>2 DEF Ours

\* What the driver writes is no matter to the reader before it gets there.
LEMMA GrownParsed == LogTypeOK /\ Parsed /\ Grown /\ UNCHANGED reader => Parsed'
<1> SUFFICES ASSUME LogTypeOK, Parsed, Grown, UNCHANGED reader, pc \notin {"start", "open"}
             PROVE  Parsed'
  BY DEF Parsed, reader
<1>0. /\ UNCHANGED <<pc, start, pos, length, printed>> /\ UNCHANGED Mark
      /\ start \in Nat /\ pos \in Nat /\ Len(file) \in Nat /\ Len(file') \in Nat
      /\ start <= pos /\ pos <= Len(file) /\ Len(file) <= Len(file') /\ pos <= Len(file')
      /\ HeaderRest \in Nat /\ \A i \in 1..Len(file) : file'[i] = file[i]
  <2>1. UNCHANGED <<pc, start, pos, length, printed>>
    BY DEF reader
  <2>2. /\ start \in Nat /\ pos \in Nat /\ Len(file) \in Nat /\ Len(file') \in Nat
        /\ start <= pos /\ pos <= Len(file) /\ Len(file) <= Len(file')
        /\ HeaderRest \in Nat /\ \A i \in 1..Len(file) : file'[i] = file[i]
    BY LenProperties, LogAssumption DEF LogTypeOK, Parsed, Grown
  <2>3. pos <= Len(file')
    BY <2>2
  <2>4. UNCHANGED Mark
    BY <2>1 DEF Mark
  <2>5. QED
    BY <2>1, <2>2, <2>3, <2>4
<1>1. /\ Ours \subseteq Ours' /\ Range(log) \subseteq Range(log')
      /\ \A m \in Range(log') : m \in Range(log) \/ m.at > Len(file)
      /\ \A m \in Ours' : m \in Ours \/ m.at > Len(file)
      /\ \A m \in Range(log') : m.at \in Nat /\ End(m) \in Nat /\ m.at <= End(m)
  <2>1. Range(log') \subseteq Message
    BY LenProperties, ElementOfSeq DEF Grown, Range
  <2>2. \A m \in Message : m.at \in Nat /\ End(m) \in Nat /\ m.at <= End(m)
    BY <1>0, MessageParts
  <2>3. QED
    BY <1>0, <2>1, <2>2, OursGrow
<1>2. ASSUME Clean' PROVE Clean
  <2> SUFFICES ASSUME NEW p \in (start + 1)..Len(file), file[p] = Magic
               PROVE  \/ \E m \in Range(log) : m.at = p
                      \/ \E m \in Ours : m.at < p /\ p <= End(m)
    BY DEF Clean
  <2>1. p \in (start + 1)..Len(file') /\ p \in 1..Len(file) /\ p <= Len(file)
    BY <1>0
  <2>2. file'[p] = Magic /\ start' = start
    BY <1>0, <2>1
  <2>3. \/ \E m \in Range(log') : m.at = p
        \/ \E m \in Ours' : m.at < p /\ p <= End(m)
    BY <1>2, <2>1, <2>2 DEF Clean, End, Magic
  <2>4. ASSUME NEW m \in Range(log'), m.at <= p PROVE ~(m.at > Len(file))
    BY <1>0, <1>1, <2>1, <2>4
  <2>5. Ours' \subseteq Range(log')
    BY DEF Ours
  <2>6. CASE \E m \in Range(log') : m.at = p
    <3>1. PICK m \in Range(log') : m.at = p
      BY <2>6
    <3>2. m.at <= p
      BY <2>1, <3>1
    <3>3. QED
      BY <1>1, <2>4, <3>1, <3>2
  <2>7. CASE \E m \in Ours' : m.at < p /\ p <= End(m)
    <3>1. PICK m \in Ours' : m.at < p /\ p <= End(m)
      BY <2>7
    <3>2. m \in Range(log') /\ m.at <= p
      BY <1>1, <2>1, <2>5, <3>1
    <3>3. QED
      BY <1>1, <2>4, <3>1, <3>2
  <2>8. QED
    BY <2>3, <2>6, <2>7
<1>3. ASSUME Clean, Filled(printed, Mark) PROVE Filled(printed, Mark)'
  <2>1. Mark \in Int /\ Mark <= pos
    BY <1>0 DEF Mark
  <2>2. Whole(Mark)' = Whole(Mark)
    <3>1. ASSUME NEW m \in Ours', End(m) <= Mark PROVE m \in Ours
      <4>1. m \in Range(log')
        BY DEF Ours
      <4>2. ~(m.at > Len(file))
        BY <1>0, <1>1, <2>1, <3>1, <4>1
      <4>3. QED
        BY <1>1, <4>2
    <3>2. Whole(Mark)' = {m \in Ours' : End(m) <= Mark}
      BY <1>0 DEF Whole, End
    <3>3. QED
      BY <1>1, <3>1, <3>2 DEF Whole
  <2>3. QED
    BY <1>0, <1>3, <2>2 DEF Filled, Places, Increasing, Fitting, Fits, BodyWords
<1>4. ASSUME AtPlace PROVE AtPlace'
  <2>1. ASSUME pc = "magic", NEW m \in Ours' PROVE pos < m.at \/ End(m) <= pos
    <3>1. CASE m \in Ours
      BY <1>4, <2>1, <3>1 DEF AtPlace
    <3>2. CASE m.at > Len(file)
      <4>1. m.at \in Nat
        BY <1>1 DEF Ours
      <4>2. QED
        BY <1>0, <3>2, <4>1
    <3>3. QED
      BY <1>1, <3>1, <3>2
  <2>2. pc = "header" => \E m \in Range(log') : m.at = pos /\ m.at > start
    BY <1>1, <1>4 DEF AtPlace
  <2>3. pc = "body" => \E m \in Ours' : m.at = pos - HeaderRest /\ m.length = length
    BY <1>1, <1>4 DEF AtPlace
  <2>4. pc = "overrun" => \E m \in Ours' : m.at = pos - HeaderRest
                                           /\ ~Fits(BodyWords(m.length))
    BY <1>1, <1>4 DEF AtPlace
  <2>5. QED
    BY <1>0, <2>1, <2>2, <2>3, <2>4 DEF AtPlace, End, Fits, BodyWords
<1>5. Clean => Filled(printed, Mark) /\ AtPlace
  BY DEF Parsed
<1>6. Clean' => Filled(printed, Mark)' /\ AtPlace'
  BY <1>2, <1>3, <1>4, <1>5
<1>7. (start <= pos /\ pos <= Len(file))'
  BY <1>0
<1>8. QED
  BY <1>6, <1>7 DEF Parsed

-----------------------------------------------------------------------------
(* The reader. *)

\* While the log stays as it is, its messages do.
LEMMA ParsedFrom ==
    ASSUME UNCHANGED <<start, file, log>>, start <= pos', pos' <= Len(file),
           Clean => Filled(printed', Mark') /\ AtPlace'
    PROVE  Parsed'
<1>1. Ours' = Ours /\ Clean' = Clean
  BY DEF Ours, Clean, End
<1>2. Filled(printed, Mark)' = Filled(printed', Mark')
  BY <1>1 DEF Filled, Whole, End, Places, Increasing, Fitting, Fits, BodyWords
<1>3. QED
  BY <1>1, <1>2 DEF Parsed

\* No message ends between two places.
LEMMA NoneBetween ==
    ASSUME NEW k1, NEW k2, \A m \in Ours : End(m) <= k1 <=> End(m) <= k2
    PROVE  Whole(k1) = Whole(k2)
  BY DEF Whole

\* Facts for the steps of the reader.
LEMMA ReaderFacts ==
    ASSUME LogTypeOK, Layout, Parsed, Reading
    PROVE  /\ start \in Nat /\ pos \in Nat /\ Len(file) \in Nat /\ HeaderRest \in Nat \ {0}
           /\ start <= pos /\ pos <= Len(file) /\ Wanted \in Nat
           /\ Clean => Filled(printed, Mark) /\ AtPlace
           /\ Ours \subseteq Range(log)
           /\ \A m \in Range(log) :
                /\ m.at \in Nat \ {0} /\ End(m) \in Nat /\ m.at + HeaderRest <= End(m)
                /\ m.at + HeaderRest <= Len(file)
           /\ \A m1, m2 \in Range(log) : m1 = m2 \/ End(m1) < m2.at \/ End(m2) < m1.at
<1>1. Wanted \in Nat
  <2>1. length \in Nat
    BY LogAssumption DEF LogTypeOK
  <2>2. BodyWords(length) \in Nat
    BY <2>1, WordsNat DEF BodyWords
  <2>3. QED
    BY <2>2, LogAssumption DEF Wanted, Reading
<1>2. QED
  BY <1>1, MessageParts, LenProperties DEF LogTypeOK, Layout, Parsed, Reading

LEMMA MagicParsed == LogTypeOK /\ Layout /\ Parsed /\ ReadMagic => Parsed'
<1> SUFFICES ASSUME LogTypeOK, Layout, Parsed, ReadMagic PROVE Parsed'
  OBVIOUS
<1>1. /\ pc = "magic" /\ Reading /\ Wanted = 1 /\ pos' = pos + 1 /\ pos + 1 <= Len(file)
      /\ UNCHANGED <<start, printed, file, log>> /\ Mark = pos /\ pc' \in {"magic", "header"}
      /\ pc' = "header" <=> file[pos + 1] = Magic
  BY DEF ReadMagic, Arrived, Wanted, Reading, Mark, driver
<1>2. Mark' = pos + 1
  BY <1>1 DEF Mark
<1> USE ReaderFacts
<1>3. ASSUME Clean PROVE Filled(printed, pos + 1) /\ AtPlace'
  <2>1. \A m \in Ours : pos < m.at \/ End(m) <= pos
    BY <1>1, <1>3 DEF AtPlace
  <2>2. \A m \in Ours : End(m) <= pos <=> End(m) <= pos + 1
    BY <1>1, <2>1
  <2>3. Filled(printed, pos + 1)
    BY <1>1, <1>3, <2>2, NoneBetween DEF Filled
  <2>4. CASE pc' = "header"
    <3>1. pos + 1 \in (start + 1)..Len(file) /\ file[pos + 1] = Magic
      BY <1>1, <2>4
    <3>2. ~\E m \in Ours : m.at < pos + 1 /\ pos + 1 <= End(m)
      BY <1>1, <2>1
    <3>3. PICK m \in Range(log) : m.at = pos + 1
      BY <1>3, <3>1, <3>2 DEF Clean
    <3>4. m.at > start
      BY <1>1, <3>3
    <3>5. log' = log /\ pos' = pos + 1 /\ start' = start
      BY <1>1
    <3>6. \E o \in Range(log') : o.at = pos' /\ o.at > start'
      BY <3>3, <3>4, <3>5
    <3>7. pc' # "magic" /\ pc' # "body" /\ pc' # "overrun"
      BY <2>4
    <3>8. QED
      BY <2>3, <3>6, <3>7 DEF AtPlace
  <2>5. CASE pc' = "magic"
    <3>1. ASSUME NEW m \in Ours PROVE pos + 1 < m.at \/ End(m) <= pos + 1
      <4>1. m \in Range(log) /\ file[m.at] = Magic
        BY <1>1 DEF Layout
      <4>2. m.at # pos + 1
        BY <1>1, <2>5, <4>1
      <4>3. QED
        BY <1>1, <2>1, <4>1, <4>2
    <3>2. Ours' = Ours
      BY <1>1 DEF Ours
    <3>3. \A m \in Ours' : pos' < m.at \/ End(m) <= pos'
      BY <1>1, <3>1, <3>2
    <3>4. pc' # "header" /\ pc' # "body" /\ pc' # "overrun"
      BY <2>5
    <3>5. QED
      BY <2>3, <3>3, <3>4 DEF AtPlace, End
  <2>6. QED
    BY <1>1, <2>3, <2>4, <2>5
<1>4. start <= pos' /\ pos' <= Len(file)
  BY <1>1
<1>5. QED
  BY <1>1, <1>2, <1>3, <1>4, ParsedFrom

LEMMA HeaderParsed == LogTypeOK /\ Layout /\ Parsed /\ ReadHeader => Parsed'
<1> SUFFICES ASSUME LogTypeOK, Layout, Parsed, ReadHeader PROVE Parsed'
  OBVIOUS
<1>1. /\ pc = "header" /\ Reading /\ Wanted = HeaderRest /\ pos' = pos + HeaderRest
      /\ pos + HeaderRest <= Len(file)
      /\ UNCHANGED <<start, printed, file, log>> /\ Mark = pos
      /\ \/ file[pos + 1] <= MaxLength /\ pc' = "body" /\ length' = file[pos + 1]
         \/ ~(file[pos + 1] <= MaxLength) /\ pc' = "magic"
  BY DEF ReadHeader, Arrived, Wanted, Reading, Mark, Legal, driver
<1> USE ReaderFacts
<1>2. ASSUME Clean PROVE Filled(printed, Mark') /\ AtPlace'
  <2>1. PICK m \in Range(log) : m.at = pos /\ m.at > start
    BY <1>1, <1>2 DEF AtPlace
  <2>2. file[pos + 1] = m.length
    BY <2>1 DEF Layout
  <2>3. CASE file[pos + 1] <= MaxLength
    <3>1. m \in Ours /\ pc' = "body" /\ length' = m.length
      BY <1>1, <2>1, <2>2, <2>3 DEF Ours
    <3>2. pos' - HeaderRest = pos
      BY <1>1
    <3>3. Mark' = pos
      BY <3>1, <3>2 DEF Mark
    <3>4. Ours' = Ours
      BY <1>1 DEF Ours
    <3>5. QED
      BY <1>1, <1>2, <2>1, <3>1, <3>2, <3>3, <3>4 DEF AtPlace
  <2>4. CASE ~(file[pos + 1] <= MaxLength)
    <3>1. m \notin Ours /\ pc' = "magic"
      BY <1>1, <2>2, <2>4 DEF Ours
    <3>2. ASSUME NEW o \in Ours
          PROVE  \/ End(o) <= pos /\ End(o) <= pos + HeaderRest
                 \/ /\ ~(End(o) <= pos) /\ ~(End(o) <= pos + HeaderRest)
                    /\ pos + HeaderRest < o.at
      <4>1. o \in Range(log) /\ o # m
        BY <1>1, <3>1
      <4>2. End(o) < m.at \/ End(m) < o.at
        BY <1>1, <4>1
      <4>3. QED
        BY <1>1, <2>1, <4>1, <4>2
    <3>3. Mark' = pos + HeaderRest
      BY <1>1, <3>1 DEF Mark
    <3>4. Filled(printed, Mark')
      BY <1>1, <1>2, <3>2, <3>3, NoneBetween DEF Filled
    <3>5. Ours' = Ours
      BY <1>1 DEF Ours
    <3>6. QED
      BY <1>1, <3>1, <3>2, <3>4, <3>5 DEF AtPlace, End
  <2>5. QED
    BY <2>3, <2>4
<1>3. start <= pos' /\ pos' <= Len(file)
  BY <1>1
<1>4. QED
  BY <1>1, <1>2, <1>3, ParsedFrom

\* A body that is read to its end without overrunning the buffer fits it.
LEMMA BodyFits ==
    ASSUME LogTypeOK, Layout, Parsed, ReadBody
    PROVE  Fits(BodyWords(length))
<1>1. pc = "body" /\ Reading /\ Wanted = BodyWords(length) /\ pos + Wanted <= Len(file)
  BY DEF ReadBody, Arrived, Wanted
<1>2. Wanted \in Nat
  BY <1>1, ReaderFacts
<1>3. CASE Wanted = 0
  BY <1>1, <1>3, LogAssumption DEF Fits
<1>4. CASE Wanted # 0
  <2>1. Wanted \in 1..Wanted
    BY <1>2, <1>4
  <2>2. ~Overruns
    BY DEF ReadBody
  <2>3. QED
    BY <1>1, <2>1, <2>2 DEF Overruns
<1>5. QED
  BY <1>3, <1>4

LEMMA BodyParsed == LogTypeOK /\ Layout /\ Parsed /\ ReadBody => Parsed'
<1> SUFFICES ASSUME LogTypeOK, Layout, Parsed, ReadBody PROVE Parsed'
  OBVIOUS
<1>1. /\ pc = "body" /\ Reading /\ Wanted = BodyWords(length) /\ pos' = pos + Wanted
      /\ pos + Wanted <= Len(file)
      /\ UNCHANGED <<start, file, log>> /\ Mark = pos - HeaderRest
      /\ pc' = "magic" /\ Mark' = pos' /\ printed' = Append(printed, pos - HeaderRest)
  BY DEF ReadBody, Arrived, Wanted, Reading, Mark, driver
<1>2. printed \in Seq(Nat) /\ HeaderRest <= pos
  BY <1>1 DEF LogTypeOK
<1> USE ReaderFacts
<1>3. ASSUME Clean PROVE Filled(printed', Mark') /\ AtPlace'
  <2>1. PICK m \in Ours : m.at = pos - HeaderRest /\ m.length = length
    BY <1>1, <1>3 DEF AtPlace
  <2>2. m \in Range(log) /\ m \in Message /\ m.at \in Nat
    BY <1>1, MessageParts
  <2>3. End(m) = pos' /\ End(m) \in Nat
    BY <1>1, <2>1, <2>2, MessageParts
  <2>4. ASSUME NEW o \in Ours, o # m
        PROVE  \/ End(o) <= m.at /\ End(o) <= pos'
               \/ ~(End(o) <= m.at) /\ ~(End(o) <= pos') /\ pos' < o.at
    <3>1. o \in Range(log)
      BY <1>1
    <3>2. End(o) < m.at \/ End(m) < o.at
      BY <1>1, <2>2, <2>4, <3>1
    <3>3. /\ o.at \in Nat /\ End(o) \in Nat /\ o.at <= End(o)
          /\ m.at <= End(m)
      <4>1. \A r \in Range(log) : r.at \in Nat /\ End(r) \in Nat /\ r.at <= End(r)
        BY <1>1
      <4>2. QED
        BY <2>2, <3>1, <4>1, Zenon
    <3>4. CASE End(o) < m.at
      BY <2>2, <2>3, <3>3, <3>4
    <3>5. CASE End(m) < o.at
      BY <2>2, <2>3, <3>3, <3>5
    <3>6. QED
      BY <3>2, <3>4, <3>5
  <2>5. Whole(pos') = Whole(m.at) \cup {m}
    BY <2>2, <2>3, <2>4 DEF Whole
  <2>6. Filled(printed, m.at)
    BY <1>1, <1>3, <2>1
  <2>7. \A x \in Range(printed) : x < m.at
    <3>1. ASSUME NEW o \in Whole(m.at) PROVE o.at < m.at
      <4>1. o \in Ours /\ End(o) <= m.at
        BY Zenon DEF Whole
      <4>2. /\ Ours \subseteq Range(log) /\ HeaderRest \in Nat \ {0}
            /\ \A r \in Range(log) :
                  r.at \in Nat \ {0} /\ End(r) \in Nat /\ r.at + HeaderRest <= End(r)
        BY <1>1
      <4>3. /\ o.at \in Nat /\ End(o) \in Nat /\ o.at + HeaderRest <= End(o)
            /\ HeaderRest \in Nat \ {0}
        BY <4>1, <4>2, Zenon
      <4>4. QED
        BY <2>2, <4>1, <4>3
    <3>2. QED
      BY <2>6, <3>1 DEF Filled, Places
  <2>8. printed' = Append(printed, m.at)
    BY <1>1, <2>1
  <2>9. Range(printed') = Range(printed) \cup {m.at} /\ Increasing(printed')
    BY <1>2, <2>2, <2>6, <2>7, <2>8, RangeAppended, IncreasingAppended DEF Filled
  <2>10. Filled(printed', Mark')
    <3>1. Range(printed') = Places(Whole(Mark')) /\ Increasing(printed')
      BY <1>1, <2>5, <2>6, <2>9 DEF Filled, Places
    <3>2. Fits(BodyWords(m.length))
      BY <2>1, BodyFits
    <3>3. Fitting(Whole(Mark'))
      BY <1>1, <2>5, <2>6, <3>2 DEF Filled, Fitting
    <3>4. QED
      BY <3>1, <3>3 DEF Filled
  <2>11. \A o \in Ours : pos' < o.at \/ End(o) <= pos'
    BY <1>1, <2>3, <2>4
  <2>12. Ours' = Ours
    BY <1>1 DEF Ours
  <2>13. QED
    BY <1>1, <2>10, <2>11, <2>12 DEF AtPlace, End
<1>4. start <= pos' /\ pos' <= Len(file)
  BY <1>1
<1>5. QED
  BY <1>1, <1>3, <1>4, ParsedFrom

LEMMA StopParsed == LogTypeOK /\ Layout /\ Parsed /\ Stop => Parsed'
<1> SUFFICES ASSUME LogTypeOK, Layout, Parsed, Stop PROVE Parsed'
  OBVIOUS
<1>1. /\ Reading /\ Wanted > 0 /\ pc' = "ended" /\ Mark' = pos'
      /\ UNCHANGED <<start, printed, file, log>>
      /\ \/ pos' = pos
         \/ pos' = Len(file) /\ pos + Wanted > Len(file)
  BY DEF Stop, ReadFails, ReadSoFar, Mark, driver
<1> USE ReaderFacts
<1>2. AtPlace'
  BY <1>1 DEF AtPlace
<1>3. ASSUME Clean PROVE Filled(printed, pos')
  <2>1. CASE pc = "magic"
    BY <1>1, <1>3, <2>1 DEF Mark, Wanted
  <2>2. CASE pc = "header"
    <3>1. PICK m \in Range(log) : m.at = pos
      BY <1>1, <1>3, <2>2 DEF AtPlace
    <3>2. Wanted = HeaderRest /\ Mark = pos
      BY <2>2 DEF Wanted, Mark
    <3>3. pos' = pos
      BY <1>1, <3>1, <3>2
    <3>4. QED
      BY <1>1, <1>3, <3>2, <3>3
  <2>3. CASE pc = "body"
    <3>1. PICK m \in Ours : m.at = pos - HeaderRest /\ m.length = length
      BY <1>1, <1>3, <2>3 DEF AtPlace
    <3>2. m \in Range(log) /\ m \in Message
      BY <1>1, MessageParts
    <3>3. Wanted = BodyWords(length) /\ Mark = m.at
      BY <2>3, <3>1 DEF Wanted, Mark
    <3>4. End(m) = pos + Wanted /\ m.at \in Nat
      BY <1>1, <3>1, <3>2, <3>3, MessageParts
    <3>5. ASSUME NEW o \in Ours PROVE End(o) <= m.at <=> End(o) <= pos'
      <4>1. o \in Range(log)
        BY <1>1
      <4>2. o = m \/ End(o) < m.at \/ End(m) < o.at
        BY <1>1, <3>2, <4>1
      <4>3. m.at + HeaderRest = pos
        BY <1>1, <3>1, <3>4
      <4>4. CASE o = m
        BY <1>1, <3>4, <4>3, <4>4
      <4>5. CASE End(o) < m.at
        BY <1>1, <3>4, <4>1, <4>3, <4>5
      <4>6. CASE End(m) < o.at
        BY <1>1, <3>4, <4>1, <4>3, <4>6
      <4>7. QED
        BY <4>2, <4>4, <4>5, <4>6
    <3>6. QED
      BY <1>1, <1>3, <3>3, <3>5, NoneBetween DEF Filled
  <2>4. QED
    BY <1>1, <2>1, <2>2, <2>3 DEF Reading
<1>4. start <= pos' /\ pos' <= Len(file)
  BY <1>1
<1>5. QED
  BY <1>1, <1>2, <1>3, <1>4, ParsedFrom

LEMMA OverrunParsed == LogTypeOK /\ Layout /\ Parsed /\ ReadPastBuffer => Parsed'
<1> SUFFICES ASSUME LogTypeOK, Layout, Parsed, ReadPastBuffer PROVE Parsed'
  OBVIOUS
<1>1. /\ pc = "body" /\ pc' = "overrun" /\ Overruns
      /\ UNCHANGED <<start, pos, printed, file, log>> /\ Mark' = Mark /\ Reading
  BY DEF ReadPastBuffer, Overruns, Mark, driver, Reading
<1>2. PICK n \in 1..Wanted : ~Fits(n)
  BY <1>1 DEF Overruns
<1>3. Wanted = BodyWords(length) /\ Wanted \in Nat
  BY <1>1, ReaderFacts DEF Wanted
<1>4. ~Fits(Wanted)
  <2>1. WordBytes \in Nat /\ HeaderRest \in Nat /\ MaxLength \in Nat
    BY LogAssumption
  <2>2. n \in Nat /\ n <= Wanted
    BY <1>3
  <2>3. (1 + HeaderRest + n) * WordBytes <= (1 + HeaderRest + Wanted) * WordBytes
    <3>1. PICK k \in Nat : Wanted = n + k
      <4>1. Wanted - n \in Nat /\ Wanted = n + (Wanted - n)
        BY <1>3, <2>2
      <4>2. QED
        BY <4>1
    <3>2. (1 + HeaderRest + Wanted) * WordBytes
            = (1 + HeaderRest + n) * WordBytes + k * WordBytes
      BY <2>1, <2>2, <3>1
    <3>3. k * WordBytes \in Nat /\ (1 + HeaderRest + n) * WordBytes \in Nat
      BY <2>1, <2>2, <3>1
    <3>4. QED
      BY <3>2, <3>3
  <2>4. /\ (1 + HeaderRest + n) * WordBytes \in Nat
        /\ (1 + HeaderRest + Wanted) * WordBytes \in Nat
    BY <1>3, <2>1, <2>2
  <2>5. QED
    BY <1>2, <2>1, <2>3, <2>4 DEF Fits
<1>5. ASSUME Clean PROVE Filled(printed', Mark') /\ AtPlace'
  <2>1. Filled(printed, Mark) /\ AtPlace
    BY <1>1, <1>5, ReaderFacts
  <2>2. PICK m \in Ours : m.at = pos - HeaderRest /\ m.length = length
    BY <1>1, <2>1 DEF AtPlace
  <2>3. Ours' = Ours /\ pos' = pos
    BY <1>1 DEF Ours
  <2>4. ~Fits(BodyWords(m.length))
    BY <1>3, <1>4, <2>2
  <2>5. AtPlace'
    BY <1>1, <2>2, <2>3, <2>4 DEF AtPlace, Fits, BodyWords
  <2>6. QED
    BY <1>1, <2>1, <2>5
<1>6. start <= pos' /\ pos' <= Len(file)
  BY <1>1, ReaderFacts
<1>7. QED
  BY <1>1, <1>5, <1>6, ParsedFrom

\* Before the log is opened and after reading has stopped.
LEMMA OutsideParsed ==
    LogTypeOK /\ Parsed /\ (ClearBefore \/ Open \/ ClearAfter) => Parsed'
<1> SUFFICES ASSUME LogTypeOK, Parsed, ClearBefore \/ Open \/ ClearAfter PROVE Parsed'
  OBVIOUS
<1>1. CASE ClearBefore
  BY <1>1 DEF ClearBefore, Parsed
<1>2. CASE Open
  <2>1. /\ start' = cleared /\ pos' = cleared /\ pc' \in {"magic", "ended"}
        /\ printed' = <<>> /\ UNCHANGED <<file, log>> /\ Mark' = cleared
        /\ cleared \in Nat /\ cleared <= Len(file)
    BY <1>2, LenProperties DEF Open, LogTypeOK, driver, Mark
  <2>2. ASSUME NEW m \in Ours'
        PROVE  m.at > cleared /\ ~(End(m) <= cleared)
    <3>1. m \in Range(log) /\ m.at > cleared
      BY <2>1 DEF Ours
    <3>2. m.at \in Nat /\ End(m) \in Nat /\ m.at <= End(m)
      BY <3>1, MessageParts
    <3>3. QED
      BY <2>1, <3>1, <3>2
  <2>3. Whole(Mark)' = {}
    BY <2>1, <2>2 DEF Whole, End
  <2>4. Filled(printed, Mark)'
    BY <2>1, <2>3 DEF Filled, Places, Increasing, Range, Fitting
  <2>5. AtPlace'
    BY <2>1, <2>2 DEF AtPlace
  <2>6. (start <= pos /\ pos <= Len(file))'
    BY <2>1
  <2>7. QED
    BY <2>4, <2>5, <2>6 DEF Parsed
<1>3. CASE ClearAfter
  <2>1. /\ pc = "ended" /\ pc' = "exit" /\ UNCHANGED <<start, pos, printed, file, log>>
        /\ Mark' = pos /\ Mark = pos
    BY <1>3 DEF ClearAfter, Mark
  <2>2. AtPlace'
    BY <2>1 DEF AtPlace
  <2>3. QED
    BY <2>1, <2>2, ParsedFrom DEF Parsed
<1>4. QED
  BY <1>1, <1>2, <1>3

-----------------------------------------------------------------------------
(* The invariant. *)

LEMMA ReaderTypeOK == LogTypeOK /\ Layout /\ Parsed /\ Reader => LogTypeOK'
<1> SUFFICES ASSUME LogTypeOK, Layout, Parsed, Reader PROVE LogTypeOK'
  OBVIOUS
<1>0. Len(file) \in Nat /\ HeaderRest \in Nat \ {0} /\ MaxLength \in Nat
  BY LenProperties, LogAssumption DEF LogTypeOK
<1>1. CASE ClearBefore
  BY <1>0, <1>1 DEF ClearBefore, Clear, LogTypeOK, options
<1>2. CASE Open
  BY <1>0, <1>2 DEF Open, LogTypeOK, driver
<1>3. CASE ReadMagic
  <2>1. pos' = pos + 1
    BY <1>3 DEF ReadMagic, Wanted
  <2>2. QED
    BY <1>0, <1>3, <2>1 DEF ReadMagic, LogTypeOK, driver
<1>4. CASE ReadHeader
  <2>1. /\ pos' = pos + HeaderRest /\ pos + HeaderRest <= Len(file) /\ pos \in Nat
        /\ pc' \in {"body", "magic"} /\ UNCHANGED <<start, printed, driver>>
        /\ length' = length \/ (Legal(file[pos + 1]) /\ length' = file[pos + 1])
    BY <1>4 DEF ReadHeader, Arrived, Wanted, LogTypeOK
  <2>2. pos + 1 \in 1..Len(file)
    BY <1>0, <2>1
  <2>3. file[pos + 1] \in Nat
    <3>1. file \in Seq(Word)
      BY DEF LogTypeOK
    <3>2. file[pos + 1] \in Word
      BY <2>2, <3>1, ElementOfSeq
    <3>3. QED
      BY <1>0, <3>2 DEF Word, Magic
  <2>4. length' \in 0..MaxLength
    BY <1>0, <2>1, <2>3 DEF Legal, LogTypeOK
  <2>5. pos' \in Nat /\ HeaderRest <= pos'
    BY <1>0, <2>1
  <2>6. QED
    BY <2>1, <2>4, <2>5 DEF LogTypeOK, driver
<1>5. CASE ReadBody
  <2>1. Reading
    BY <1>5 DEF ReadBody, Arrived
  <2>2. Wanted \in Nat /\ pos \in Nat
    BY <2>1, ReaderFacts
  <2>3. pos' \in Nat /\ pos - HeaderRest \in Nat
    BY <1>0, <1>5, <2>2 DEF ReadBody, LogTypeOK
  <2>4. printed' \in Seq(Nat)
    BY <1>5, <2>3, AppendProperties DEF ReadBody, LogTypeOK
  <2>5. QED
    BY <1>5, <2>3, <2>4 DEF ReadBody, LogTypeOK, driver
<1>6. CASE Stop
  BY <1>0, <1>6 DEF Stop, ReadSoFar, LogTypeOK, driver
<1>7. CASE ClearAfter
  BY <1>0, <1>7 DEF ClearAfter, Clear, LogTypeOK, options
<1>8. CASE ReadPastBuffer
  BY <1>0, <1>8 DEF ReadPastBuffer, Overruns, LogTypeOK, driver
<1>9. QED
  BY <1>1, <1>2, <1>3, <1>4, <1>5, <1>6, <1>7, <1>8 DEF Reader

LEMMA DriverTypeOK == LogTypeOK /\ Driver => LogTypeOK' /\ UNCHANGED reader
<1> SUFFICES ASSUME LogTypeOK, Driver PROVE LogTypeOK' /\ UNCHANGED reader
  OBVIOUS
<1>1. UNCHANGED reader /\ cleared' = cleared
  BY DEF Driver, WriteBody, Vanish, WriteHeader
<1>2. Grown
  BY DriverGrows
<1>3. Len(file) \in Nat /\ Len(file') \in Nat
  BY <1>2, LenProperties DEF LogTypeOK, Grown
<1>4. QED
  BY <1>1, <1>2, <1>3 DEF LogTypeOK, Grown, reader

LEMMA LogInvStep == LogInv /\ [Next]_vars => LogInv'
<1> SUFFICES ASSUME LogTypeOK, Layout, Parsed, [Next]_vars PROVE LogInv'
  BY DEF LogInv
<1>1. CASE Reader
  <2>1. UNCHANGED <<file, rest, log>>
    BY <1>1 DEF Reader, ClearBefore, Open, ReadMagic, ReadHeader, ReadBody, ReadPastBuffer,
       Stop, ClearAfter, driver
  <2>2. Layout'
    BY <2>1 DEF Layout, End
  <2>3. Parsed'
    BY <1>1, OutsideParsed, MagicParsed, HeaderParsed, BodyParsed, OverrunParsed,
       StopParsed DEF Reader
  <2>4. QED
    BY <1>1, <2>2, <2>3, ReaderTypeOK DEF LogInv
<1>2. CASE Driver
  BY <1>2, DriverGrows, DriverTypeOK, LayoutStep, GrownParsed DEF LogInv
<1>3. CASE UNCHANGED vars
  <2>1. UNCHANGED <<pc, start, pos, length, printed, file, cleared, rest, log>>
    BY <1>3 DEF vars, reader, driver
  <2>2. LogTypeOK' /\ Layout'
    BY <2>1 DEF LogTypeOK, Layout, End
  <2>3. Parsed'
    <3>1. Mark' = Mark /\ Ours' = Ours
      BY <2>1 DEF Mark, Ours
    <3>2. AtPlace' = AtPlace
      BY <2>1, <3>1 DEF AtPlace, End
    <3>3. CASE pc \in {"start", "open"}
      BY <2>1, <3>3 DEF Parsed
    <3>4. CASE pc \notin {"start", "open"}
      <4>1. start <= pos' /\ pos' <= Len(file) /\ UNCHANGED <<start, file, log>>
        BY <2>1, <3>4 DEF Parsed
      <4>2. Clean => Filled(printed', Mark') /\ AtPlace'
        <5>1. Clean => Filled(printed, Mark) /\ AtPlace
          BY <3>4, Zenon DEF Parsed
        <5>2. printed' = printed
          BY <2>1
        <5>3. QED
          BY <3>1, <3>2, <5>1, <5>2
      <4>3. QED
        BY <4>1, <4>2, ParsedFrom
    <3>5. QED
      BY <3>3, <3>4
  <2>4. QED
    BY <2>2, <2>3 DEF LogInv
<1>4. QED
  BY <1>1, <1>2, <1>3 DEF Next, Idle

LEMMA LogInvInit == Init => LogInv
<1> SUFFICES ASSUME Init PROVE LogInv
  OBVIOUS
<1>1. file \in Seq(Word)
  <2>1. PICK n \in 0..MaxTail : file \in [1..n -> {0, Magic}]
    BY DEF Init
  <2>2. {0, Magic} \subseteq Word /\ n \in Nat
    BY LogAssumption DEF Magic, Word
  <2>3. QED
    BY <2>1, <2>2
<1>2. LogTypeOK
  BY <1>1, LenProperties, LogAssumption DEF Init, LogTypeOK
<1>3. Range(log) = {}
  BY DEF Init, Range
<1>4. QED
  BY <1>2, <1>3 DEF LogInv, Layout, Parsed, Init

\* The invariant holds in every state.
THEOREM LogInvariance == Spec => []LogInv
<1>1. QED
  BY LogInvInit, LogInvStep, PTL DEF Spec

\* From any start, through the rest of an overwritten message, messages of an unknown
\* type and bodies that hold magic words, Logd::run unpacks exactly the legal messages
\* it has read to their ends, in order, as long as there is no stray magic word and no
\* legal message that does not fit its buffer: for every size of words, headers and
\* messages, and whatever is written meanwhile.  If it reads past the buffer, it is in
\* a legal message that does not fit.
THEOREM StaysInStep == Spec => []InStep
<1>1. LogInv => InStep
  <2>1. ASSUME LogTypeOK, Parsed, Clean, pc \in {"magic", "ended", "exit"}
        PROVE  /\ Range(printed) = {m.at : m \in {m \in Ours : End(m) <= pos}}
               /\ \A i, j \in DOMAIN printed : i < j => printed[i] < printed[j]
               /\ \A m \in Ours : End(m) <= pos => Fits(BodyWords(m.length))
    <3>1. Filled(printed, pos)
      BY <2>1 DEF Parsed, Mark
    <3>2. QED
      BY <3>1 DEF Filled, Places, Whole, Increasing, Fitting
  <2>2. ASSUME LogTypeOK, Parsed, Clean, pc = "overrun"
        PROVE  \E m \in Ours : ~Fits(BodyWords(m.length)) /\ m.at = pos - HeaderRest
    BY <2>2 DEF Parsed, AtPlace
  <2>3. QED
    BY <2>1, <2>2 DEF LogInv, InStep
<1>2. QED
  BY <1>1, LogInvariance, PTL
=============================================================================
