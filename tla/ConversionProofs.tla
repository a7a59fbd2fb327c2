--------------------------- MODULE ConversionProofs ---------------------------
(***************************************************************************)
(* What goes over the wire comes back: the conversions of Subject and Wire *)
(* are inverse to each other, for every tuple.  And a subject is read from *)
(* the text it is written as, for every text: its number, digit by digit.  *)
(***************************************************************************)
EXTENDS Wire, SequenceTheorems, WellFoundedInduction, TLAPS

\* Whole seconds survive the conversion to a time and back.
LEMMA SecondsKept ==
    ASSUME NEW secs \in Int \cup {Forever}
    PROVE  /\ FromUnix(secs) \in Int \cup {Forever}
           /\ Unix(FromUnix(secs)) = secs
<1> USE TickAssumption, ForeverAssumption DEF Unix, FromUnix
<1>1. CASE secs = Forever
  BY <1>1
<1>2. CASE secs \in Int
  <2>1. secs * TicksPerSecond \in Int
    BY <1>2
  <2>2. (secs * TicksPerSecond) \div TicksPerSecond = secs
    BY <1>2
  <2> QED
    BY <1>2, <2>1, <2>2
<1> QED
  BY <1>1, <1>2

\* A subject that can be read goes back as it came.
LEMMA UserKept ==
    ASSUME NEW user \in WireUsers, tupleSubjectFromProto(user) # Error
    PROVE  /\ tupleSubjectFromProto(user) \in Subjects(Int64, UserSets)
           /\ Proper(tupleSubjectFromProto(user))
           /\ WireUser(tupleSubjectFromProto(user)) = user
<1> USE DEF tupleSubjectFromProto, WireUser, Error
<1>1. CASE user \in {WireId(n) : n \in Int64}
  <2>1. PICK n \in Int64 : user = WireId(n)
    BY <1>1
  <2>2. n > 0 /\ tupleSubjectFromProto(user) = UserId(n)
    BY <2>1 DEF WireId, NewUserId, Int64
  <2> QED
    BY <2>1, <2>2 DEF WireId, UserId, Proper, Subjects
<1>2. CASE user \in WireUserSets
  <2>1. PICK n \in Names \X Names \X Names : user = WireUserSet(n[1], n[2], n[3])
    BY <1>2 DEF WireUserSets
  <2>2. tupleSubjectFromProto(user) = UserSet(n[1], n[2], n[3])
    BY <2>1 DEF WireUserSet, userSetFromProto
  <2> QED
    BY <2>1, <2>2 DEF WireUserSet, UserSet, Proper, Subjects, UserSets, userSetToProto
<1>3. CASE user \in Wildcards
  <2>1. PICK w \in Codes : user = WireWildcard(w)
    BY <1>3 DEF Wildcards
  <2>2. w \in {1, 2} /\ tupleSubjectFromProto(user) = Wildcard(w)
    BY <2>1 DEF WireWildcard, wildcardFromProto
  <2> QED
    BY <2>1, <2>2 DEF WireWildcard, Wildcard, Proper, Subjects, wildcardToProto,
                      AllUsers, AuthenticatedUsers
<1>4. CASE user \in {Missing, EmptyUserSet, UnknownUser}
  BY <1>4 DEF Missing, EmptyUserSet, UnknownUser
<1> QED
  BY <1>1, <1>2, <1>3, <1>4 DEF WireUsers

\* A time is sent as the whole second it falls in, so never later than it is,
\* before 1970 as well as after.
LEMMA SecondsSent ==
    ASSUME NEW time \in Int \cup {Forever}
    PROVE  /\ Unix(time) \in Int \cup {Forever}
           /\ Unix(time) = Forever <=> time = Forever
           /\ time # Forever =>
                /\ FromUnix(Unix(time)) = Unix(time) * TicksPerSecond
                /\ Unix(time) * TicksPerSecond <= time
                /\ time < (Unix(time) + 1) * TicksPerSecond
<1> USE TickAssumption, ForeverAssumption DEF Unix, FromUnix
<1>1. CASE time = Forever
  BY <1>1
<1>2. CASE time \in Int
  <2>1. time \div TicksPerSecond \in Int
    BY <1>2
  <2>2. /\ (time \div TicksPerSecond) * TicksPerSecond <= time
        /\ time < (time \div TicksPerSecond + 1) * TicksPerSecond
    BY <1>2
  <2> QED
    BY <1>2, <2>1, <2>2
<1> QED
  BY <1>1, <1>2

\* A subject with a wire form has one the messages know.
LEMMA UserSent ==
    ASSUME NEW sub \in Subjects(Int64, UserSets), WireUser(sub) # Error
    PROVE  WireUser(sub) \in WireUsers
<1> USE DEF WireUser, Error
<1>1. CASE sub \in {UserId(n) : n \in Int64}
  BY <1>1 DEF UserId, WireUsers
<1>2. CASE sub \in UserSets
  <2>1. PICK n \in Names \X Names \X Names : sub = UserSet(n[1], n[2], n[3])
    BY <1>2 DEF UserSets
  <2>2. WireUser(sub) = WireUserSet(n[1], n[2], n[3])
    BY <2>1 DEF UserSet, userSetToProto
  <2> QED
    BY <2>2 DEF WireUsers, WireUserSets
<1>3. CASE sub \in {Wildcard(code) : code \in Codes}
  BY <1>3 DEF Wildcard, wildcardToProto, AllUsers, AuthenticatedUsers, WireUsers,
              Wildcards, Codes
<1>4. CASE sub = OtherSubject
  BY <1>4 DEF OtherSubject
<1> QED
  BY <1>1, <1>2, <1>3, <1>4 DEF Subjects

\* A proper subject is read back as it was.
LEMMA SubjectKept ==
    ASSUME NEW sub \in Subjects(Int64, UserSets), Proper(sub)
    PROVE  /\ WireUser(sub) # Error
           /\ tupleSubjectFromProto(WireUser(sub)) = sub
<1> USE DEF tupleSubjectFromProto, WireUser, Error
<1>1. CASE sub \in {UserId(n) : n \in Int64}
  <2>1. PICK n \in Int64 : sub = UserId(n)
    BY <1>1
  <2>2. n > 0
    BY <2>1 DEF UserId, Proper, AllUsers, AuthenticatedUsers, Wildcard
  <2>3. WireUser(sub) = WireId(n)
    BY <2>1 DEF UserId
  <2> QED
    BY <2>1, <2>2, <2>3 DEF UserId, WireId, NewUserId, Int64
<1>2. CASE sub \in UserSets
  <2>1. PICK n \in Names \X Names \X Names : sub = UserSet(n[1], n[2], n[3])
    BY <1>2 DEF UserSets
  <2>2. WireUser(sub) = WireUserSet(n[1], n[2], n[3])
    BY <2>1 DEF UserSet, userSetToProto
  <2> QED
    BY <2>1, <2>2 DEF WireUserSet, UserSet, userSetFromProto
<1>3. CASE sub \in {Wildcard(code) : code \in Codes}
  <2>1. PICK code \in Codes : sub = Wildcard(code)
    BY <1>3
  <2>2. code \in {1, 2} /\ WireUser(sub) = WireWildcard(code)
    BY <2>1 DEF Wildcard, Proper, AllUsers, AuthenticatedUsers, wildcardToProto
  <2> QED
    BY <2>1, <2>2 DEF WireWildcard, wildcardFromProto, Wildcard
<1>4. CASE sub = OtherSubject
  BY <1>4 DEF OtherSubject, Proper, AllUsers, AuthenticatedUsers, Wildcard
<1> QED
  BY <1>1, <1>2, <1>3, <1>4 DEF Subjects

\* What setTupleUser makes of a tuple.
LEMMA TupleToProto ==
    ASSUME NEW t \in GoTuples
    PROVE  tupleToProto(t) = IF WireUser(t.subject) = Error THEN Error
                             ELSE WireTuple(t.ns, t.obj, t.rel, WireUser(t.subject),
                                            Unix(t.expires))
BY DEF tupleToProto, setTupleUser, WithUser, WireTuple

\* A wire tuple is never the error value.
LEMMA WireTupleNoError ==
    ASSUME NEW pt \in WireTuples
    PROVE  pt # Error
<1>1. "ns" \in DOMAIN pt
  BY DEF WireTuples
<1>2. "ns" \notin DOMAIN Error
  BY DEF Error
<1> QED
  BY <1>1, <1>2

\* A tuple that is sent is a message.
LEMMA TupleSent ==
    ASSUME NEW t \in GoTuples, tupleToProto(t) # Error
    PROVE  tupleToProto(t) \in WireTuples
<1>1. WireUser(t.subject) \in WireUsers
  BY TupleToProto, UserSent DEF GoTuples
<1>2. Unix(t.expires) \in Int \cup {Forever}
  BY SecondsSent DEF GoTuples
<1> QED
  BY <1>1, <1>2, TupleToProto DEF GoTuples, WireTuples, WireTuple

\* A tuple that is received and can be read would be sent as it came: a
\* watcher or reader that writes what it was given writes the same tuple.
THEOREM ReceivedKept ==
    ASSUME NEW pt \in WireTuples, Readable(pt)
    PROVE  /\ tupleFromProto(pt) \in GoTuples
           /\ tupleToProto(tupleFromProto(pt)) = pt
<1> DEFINE sub == tupleSubjectFromProto(pt.user)
           t   == Tuple(pt.ns, pt.obj, pt.rel, sub, FromUnix(pt.expires))
<1>1. sub # Error /\ tupleFromProto(pt) = t
  BY DEF tupleFromProto, Readable
<1>2. sub \in Subjects(Int64, UserSets) /\ WireUser(sub) = pt.user
  BY <1>1, UserKept DEF WireTuples
<1>3. FromUnix(pt.expires) \in Int \cup {Forever} /\ Unix(FromUnix(pt.expires)) = pt.expires
  BY SecondsKept DEF WireTuples
<1>4. t \in GoTuples
  BY <1>2, <1>3 DEF GoTuples, Tuple, WireTuples
<1>5. WireUser(sub) # Error
  BY <1>2 DEF WireTuples, WireUsers, WireUserSets, Wildcards, WireId, WireUserSet, WireWildcard,
              Missing, EmptyUserSet, UnknownUser, Error
<1>6. tupleToProto(t) = WireTuple(pt.ns, pt.obj, pt.rel, pt.user, pt.expires)
  BY <1>2, <1>3, <1>4, <1>5, TupleToProto DEF Tuple
<1>7. WireTuple(pt.ns, pt.obj, pt.rel, pt.user, pt.expires) = pt
  BY DEF WireTuple, WireTuples
<1> QED
  BY <1>1, <1>4, <1>6, <1>7

\* A tuple about a proper subject is sent, and is read back as it was, with an
\* expiry in whole seconds that is at most a second earlier and never later.
THEOREM SentKept ==
    ASSUME NEW t \in GoTuples, Proper(t.subject)
    PROVE  /\ tupleToProto(t) # Error
           /\ tupleFromProto(tupleToProto(t)) =
                [t EXCEPT !.expires = FromUnix(Unix(t.expires))]
           /\ t.expires # Forever =>
                /\ FromUnix(Unix(t.expires)) <= t.expires
                /\ t.expires < FromUnix(Unix(t.expires)) + TicksPerSecond
<1>1. t.subject \in Subjects(Int64, UserSets) /\ t.expires \in Int \cup {Forever}
  BY DEF GoTuples
<1>2. /\ WireUser(t.subject) # Error
      /\ tupleSubjectFromProto(WireUser(t.subject)) = t.subject
  BY <1>1, SubjectKept
<1> DEFINE pt == WireTuple(t.ns, t.obj, t.rel, WireUser(t.subject), Unix(t.expires))
<1>3. tupleToProto(t) = pt
  BY <1>2, TupleToProto
<1>4. pt # Error
  <2>1. "ns" \in DOMAIN pt /\ "ns" \notin DOMAIN Error
    BY DEF WireTuple, Error
  <2> QED
    BY <2>1
<1>5. t.subject # Error
  BY DEF Proper, Error, AllUsers, AuthenticatedUsers, Wildcard
<1>6. tupleFromProto(pt) =
        Tuple(t.ns, t.obj, t.rel, t.subject, FromUnix(Unix(t.expires)))
  BY <1>2, <1>5 DEF tupleFromProto, WireTuple
<1>7. Tuple(t.ns, t.obj, t.rel, t.subject, FromUnix(Unix(t.expires)))
        = [t EXCEPT !.expires = FromUnix(Unix(t.expires))]
  BY DEF Tuple, GoTuples
<1>8. t.expires # Forever =>
        /\ FromUnix(Unix(t.expires)) <= t.expires
        /\ t.expires < FromUnix(Unix(t.expires)) + TicksPerSecond
  <2> DEFINE secs == Unix(t.expires)
  <2>1. ASSUME t.expires # Forever
        PROVE  /\ secs \in Int /\ FromUnix(secs) = secs * TicksPerSecond
               /\ secs * TicksPerSecond <= t.expires
               /\ t.expires < (secs + 1) * TicksPerSecond
    BY <1>1, <2>1, SecondsSent
  <2> HIDE DEF secs
  <2>2. ASSUME secs \in Int
        PROVE  (secs + 1) * TicksPerSecond = secs * TicksPerSecond + TicksPerSecond
    BY <2>2, TickAssumption
  <2> QED
    BY <2>1, <2>2 DEF secs
<1> QED
  BY <1>1, <1>3, <1>4, <1>6, <1>7, <1>8

-----------------------------------------------------------------------------
(* Induction, over sets of numbers *)

\* A set of numbers that has 0 and the successor of each of its members has all.
LEMMA Induction ==
    ASSUME NEW S, 0 \in S, \A n \in Nat : n \in S => n + 1 \in S
    PROVE  \A n \in Nat : n \in S
<1> DEFINE others == {n \in Nat : n \notin S}
           less   == OpToRel(<, Nat)
<1>1. SUFFICES ASSUME others # {} PROVE FALSE
  OBVIOUS
<1>2. IsWellFoundedOn(less, Nat)
  BY NatLessThanWellFounded
<1>3. \A m, n \in Nat : m < n => <<m, n>> \in less
  BY DEF OpToRel
<1> HIDE DEF less
<1>4. PICK n \in others : \A m \in others : <<m, n>> \notin less
  BY <1>1, <1>2, WFMin
<1>5. n \in Nat /\ n # 0 /\ n - 1 \in Nat /\ n - 1 < n /\ (n - 1) + 1 = n
  BY <1>4
<1>6. n - 1 \notin others
  BY <1>3, <1>4, <1>5
<1> QED
  BY <1>4, <1>5, <1>6

\* ... and one that has each number all smaller ones of which it has.
LEMMA StrongInduction ==
    ASSUME NEW S, \A n \in Nat : (\A m \in 0..(n - 1) : m \in S) => n \in S
    PROVE  \A n \in Nat : n \in S
<1> DEFINE upTo == {n \in Nat : \A m \in 0..n : m \in S}
<1>1. 0 \in upTo
  <2>1. 0 \in S
    OBVIOUS
  <2>2. \A m \in 0..0 : m = 0
    OBVIOUS
  <2> QED
    BY <2>1, <2>2
<1>2. ASSUME NEW n \in Nat, n \in upTo
      PROVE  n + 1 \in upTo
  <2>1. n + 1 \in S
    <3>1. \A m \in 0..((n + 1) - 1) : m \in S
      BY <1>2
    <3> QED
      BY <3>1
  <2>2. \A m \in 0..(n + 1) : m \in 0..n \/ m = n + 1
    OBVIOUS
  <2> QED
    BY <1>2, <2>1, <2>2
<1>3. \A n \in Nat : n \in upTo
  <2> HIDE DEF upTo
  <2> QED
    BY <1>1, <1>2, Induction
<1>4. \A n \in Nat : n \in 0..n
  OBVIOUS
<1> QED
  BY <1>3, <1>4

-----------------------------------------------------------------------------
(* Sequences *)

\* A sequence of one is its only element.
LEMMA OneElement ==
    ASSUME NEW S, NEW s \in Seq(S), Len(s) = 1
    PROVE  s[1] \in S /\ s = <<s[1]>>
<1>1. 1 \in 1..Len(s)
  OBVIOUS
<1>2. s[1] \in S
  BY <1>1
<1>3. <<s[1]>> \in Seq(S) /\ Len(<<s[1]>>) = 1 /\ <<s[1]>>[1] = s[1]
  BY <1>2
<1> QED
  BY <1>2, <1>3, SeqEqual

-----------------------------------------------------------------------------
(* Numbers and their digits *)

\* The last digit of a number and the number before it.
LEMMA LastDigit ==
    ASSUME NEW n \in Nat
    PROVE  /\ n \div Base \in Nat /\ n % Base \in Digits
           /\ n = Base * (n \div Base) + (n % Base)
           /\ n >= Base => n \div Base > 0 /\ n \div Base < n
BY IdAssumption DEF Digits

\* Appended to a number, a digit is the last one.
LEMMA DigitAppended ==
    ASSUME NEW n \in Nat, NEW d \in Digits
    PROVE  /\ Base * n + d \in Nat
           /\ (Base * n + d) \div Base = n /\ (Base * n + d) % Base = d
           /\ n > 0 => Base * n + d >= Base
BY IdAssumption DEF Digits

\* A smaller number has no larger one before its last digit.
LEMMA DivMonotonic ==
    ASSUME NEW m \in Nat, NEW n \in Nat, m <= n
    PROVE  m \div Base <= n \div Base
BY IdAssumption

\* The recursion that defines numerals has a solution.
LEMMA NumeralDef ==
    ASSUME NEW n \in 0..MaxId
    PROVE  /\ n < Base => Numeral[n] = <<n>>
           /\ n >= Base => Numeral[n] = Append(Numeral[n \div Base], n % Base)
<1> DEFINE solves(f, m) ==
               f = [i \in 0..m |-> IF i < Base THEN <<i>>
                                   ELSE Append(f[i \div Base], i % Base)]
           solved == {m \in Nat : \E f : solves(f, m)}
<1>1. 0 \in solved
  <2> DEFINE f == [i \in 0..0 |-> <<i>>]
  <2>1. \A i \in 0..0 : i < Base
    BY IdAssumption
  <2>2. solves(f, 0)
    BY <2>1
  <2> QED
    BY <2>2
<1>2. ASSUME NEW m \in Nat, m \in solved
      PROVE  m + 1 \in solved
  <2>1. PICK f : solves(f, m)
    BY <1>2
  <2> DEFINE g == [i \in 0..(m + 1) |-> IF i < Base THEN <<i>>
                                        ELSE Append(f[i \div Base], i % Base)]
  <2>2. \A i \in 0..m : g[i] = f[i]
    <3>1. \A i \in 0..m : i \in 0..(m + 1)
      OBVIOUS
    <3>2. \A i \in 0..m : f[i] = IF i < Base THEN <<i>>
                                  ELSE Append(f[i \div Base], i % Base)
      BY <2>1
    <3> QED
      BY <3>1, <3>2
  <2>3. \A i \in 0..(m + 1) : i >= Base => i \div Base \in 0..m
    BY LastDigit
  <2>4. \A i \in 0..(m + 1) : ~(i < Base) => i >= Base
    BY IdAssumption
  <2>5. solves(g, m + 1)
    BY <2>2, <2>3, <2>4
  <2> HIDE DEF g, solves
  <2> QED
    BY <2>5
<1>3. \A m \in Nat : m \in solved
  <2> HIDE DEF solved
  <2> QED
    BY <1>1, <1>2, Induction
<1>4. PICK f : solves(f, MaxId)
  BY <1>3, IdAssumption
<1>5. solves(Numeral, MaxId)
  BY <1>4 DEF Numeral
<1> HIDE DEF solves
<1>6. Numeral[n] = IF n < Base THEN <<n>> ELSE Append(Numeral[n \div Base], n % Base)
  BY <1>5 DEF solves
<1>7. ~(n >= Base /\ n < Base)
  BY IdAssumption
<1> QED
  BY <1>6, <1>7

\* So has the one that defines values.
LEMMA ValueDef ==
    ASSUME NEW s \in Seq(Digits)
    PROVE  \E value \in [0..Len(s) -> Nat] :
               /\ Value(s) = value[Len(s)]
               /\ value[0] = 0
               /\ \A i \in 1..Len(s) : value[i] = Base * value[i - 1] + s[i]
<1> DEFINE solves(f, m) ==
               f = [i \in 0..m |-> IF i = 0 THEN 0 ELSE Base * f[i - 1] + s[i]]
           solved == {m \in Nat : \E f : solves(f, m)}
<1>0. Len(s) \in Nat /\ \A i \in 1..Len(s) : s[i] \in Digits /\ s[i] \in Nat
  BY IdAssumption DEF Digits
<1>1. 0 \in solved
  <2> DEFINE f == [i \in 0..0 |-> 0]
  <2>1. solves(f, 0)
    OBVIOUS
  <2> QED
    BY <2>1
<1>2. ASSUME NEW m \in Nat, m \in solved
      PROVE  m + 1 \in solved
  <2>1. PICK f : solves(f, m)
    BY <1>2
  <2> DEFINE g == [i \in 0..(m + 1) |-> IF i = 0 THEN 0 ELSE Base * f[i - 1] + s[i]]
  <2>2. \A i \in 0..m : g[i] = f[i]
    BY <2>1
  <2>3. \A i \in 0..(m + 1) : i # 0 => i - 1 \in 0..m
    OBVIOUS
  <2>4. solves(g, m + 1)
    BY <2>2, <2>3
  <2> HIDE DEF g, solves
  <2> QED
    BY <2>4
<1>3. \A m \in Nat : m \in solved
  <2> HIDE DEF solved
  <2> QED
    BY <1>1, <1>2, Induction
<1> DEFINE value == CHOOSE f : solves(f, Len(s))
<1>4. Value(s) = value[Len(s)]
  BY DEF Value
<1>5. PICK f : solves(f, Len(s))
  <2> HIDE DEF solves
  <2> QED
    BY <1>0, <1>3
<1>6. solves(value, Len(s))
  <2> HIDE DEF solves
  <2> QED
    BY <1>5
<1> HIDE DEF value
<1>7. value[0] = 0 /\ \A i \in 1..Len(s) : value[i] = Base * value[i - 1] + s[i]
  BY <1>0, <1>6
<1>8. \A i \in Nat : i \in {j \in Nat : j <= Len(s) => value[j] \in Nat}
  <2> DEFINE natural == {j \in Nat : j <= Len(s) => value[j] \in Nat}
  <2>1. 0 \in natural
    BY <1>7
  <2>2. ASSUME NEW j \in Nat, j \in natural
        PROVE  j + 1 \in natural
    <3>1. SUFFICES ASSUME j + 1 <= Len(s) PROVE value[j + 1] \in Nat
      OBVIOUS
    <3>2. j + 1 \in 1..Len(s) /\ (j + 1) - 1 = j /\ value[j] \in Nat
      BY <1>0, <2>2, <3>1
    <3>3. value[j + 1] = Base * value[j] + s[j + 1] /\ s[j + 1] \in Digits
      BY <1>0, <1>7, <3>2
    <3> QED
      BY <3>2, <3>3, DigitAppended
  <2> HIDE DEF natural
  <2>3. \A i \in Nat : i \in natural
    BY <2>1, <2>2, Induction
  <2> QED
    BY <2>3 DEF natural
<1>9. value \in [0..Len(s) -> Nat]
  <2>1. DOMAIN value = 0..Len(s) /\ value = [i \in DOMAIN value |-> value[i]]
    BY <1>6
  <2>2. \A i \in 0..Len(s) : value[i] \in Nat
    BY <1>0, <1>8
  <2> QED
    BY <2>1, <2>2
<1> QED
  BY <1>4, <1>7, <1>9

\* A digit is its own value.
LEMMA ValueDigit ==
    ASSUME NEW d \in Digits
    PROVE  Value(<<d>>) = d
<1> DEFINE s == <<d>>
<1>1. s \in Seq(Digits) /\ Len(s) = 1 /\ s[1] = d
  OBVIOUS
<1> HIDE DEF s
<1>2. PICK f \in [0..1 -> Nat] :
         Value(s) = f[1] /\ f[0] = 0 /\ f[1] = Base * f[1 - 1] + s[1]
  <2>1. 1 \in 1..1
    OBVIOUS
  <2> QED
    BY <1>1, <2>1, ValueDef
<1>3. Base * 0 + d = d
  BY IdAssumption DEF Digits
<1> QED
  BY <1>1, <1>2, <1>3 DEF s

\* A digit more makes the number Base times as large, and adds the digit.
LEMMA ValueAppend ==
    ASSUME NEW s \in Seq(Digits), NEW d \in Digits
    PROVE  /\ Value(s) \in Nat
           /\ Value(Append(s, d)) = Base * Value(s) + d
<1> DEFINE t == Append(s, d)
           k == Len(s)
<1>1. /\ t \in Seq(Digits) /\ k \in Nat /\ Len(t) = k + 1 /\ t[k + 1] = d
      /\ \A i \in 1..k : t[i] = s[i]
  OBVIOUS
<1>2. PICK f \in [0..k -> Nat] :
         /\ Value(s) = f[k] /\ f[0] = 0
         /\ \A i \in 1..k : f[i] = Base * f[i - 1] + s[i]
  BY ValueDef
<1>3. PICK g \in [0..(k + 1) -> Nat] :
         /\ Value(t) = g[k + 1] /\ g[0] = 0
         /\ \A i \in 1..(k + 1) : g[i] = Base * g[i - 1] + t[i]
  <2> HIDE DEF t
  <2> QED
    BY <1>1, ValueDef
<1> DEFINE same == {i \in Nat : i <= k => g[i] = f[i]}
<1>4. 0 \in same
  BY <1>2, <1>3
<1>5. ASSUME NEW i \in Nat, i \in same
      PROVE  i + 1 \in same
  <2>1. SUFFICES ASSUME i + 1 <= k PROVE g[i + 1] = f[i + 1]
    OBVIOUS
  <2>2. i + 1 \in 1..k /\ i + 1 \in 1..(k + 1) /\ (i + 1) - 1 = i /\ g[i] = f[i]
    BY <1>1, <1>5, <2>1
  <2> QED
    BY <1>1, <1>2, <1>3, <2>2
<1>6. \A i \in Nat : i \in same
  <2> HIDE DEF same
  <2> QED
    BY <1>4, <1>5, Induction
<1>7. g[k] = f[k]
  BY <1>1, <1>6
<1>8. k + 1 \in 1..(k + 1) /\ (k + 1) - 1 = k
  BY <1>1
<1>9. Value(t) = Base * Value(s) + d
  BY <1>1, <1>2, <1>3, <1>7, <1>8
<1> QED
  BY <1>1, <1>2, <1>9

\* A numeral has no leading zero, and its value is the number it was made of.
LEMMA NumeralRead ==
    ASSUME NEW n \in 0..MaxId
    PROVE  /\ Numeral[n] \in Seq(Digits) /\ Numeral[n] # <<>>
           /\ n > 0 => Numeral[n][1] # 0
           /\ Value(Numeral[n]) = n
<1> DEFINE reads(m) == /\ Numeral[m] \in Seq(Digits) /\ Numeral[m] # <<>>
                       /\ m > 0 => Numeral[m][1] # 0
                       /\ Value(Numeral[m]) = m
           right == {m \in Nat : m <= MaxId => reads(m)}
<1>1. ASSUME NEW m \in Nat, \A l \in 0..(m - 1) : l \in right
      PROVE  m \in right
  <2>1. SUFFICES ASSUME m <= MaxId PROVE reads(m)
    OBVIOUS
  <2>2. m \in 0..MaxId
    BY <2>1, IdAssumption
  <2>3. CASE m < Base
    <3>1. m \in Digits /\ Numeral[m] = <<m>>
      BY <2>2, <2>3, NumeralDef, IdAssumption DEF Digits
    <3>2. Value(<<m>>) = m
      BY <3>1, ValueDigit
    <3> QED
      BY <3>1, <3>2
  <2>4. CASE m >= Base
    <3> DEFINE l == m \div Base
               d == m % Base
    <3>1. l \in Nat /\ d \in Digits /\ m = Base * l + d /\ l > 0 /\ l < m
      BY <2>4, LastDigit, IdAssumption
    <3>2. Numeral[m] = Append(Numeral[l], d)
      BY <2>2, <2>4, NumeralDef
    <3> HIDE DEF l, d
    <3>3. reads(l)
      <4>1. l \in 0..(m - 1) /\ l <= MaxId
        BY <2>1, <3>1, IdAssumption
      <4> HIDE DEF reads
      <4> QED
        BY <1>1, <4>1
    <3>4. Value(Append(Numeral[l], d)) = m
      BY <3>1, <3>3, ValueAppend
    <3>5. /\ Append(Numeral[l], d) \in Seq(Digits) /\ Append(Numeral[l], d) # <<>>
          /\ Append(Numeral[l], d)[1] = Numeral[l][1]
      BY <3>1, <3>3
    <3> QED
      BY <3>1, <3>2, <3>3, <3>4, <3>5
  <2> QED
    BY <2>3, <2>4, IdAssumption
<1>2. \A m \in Nat : m \in right
  <2> HIDE DEF right
  <2> QED
    BY <1>1, StrongInduction
<1> HIDE DEF reads
<1>3. reads(n)
  BY <1>2, IdAssumption
<1> QED
  BY <1>3 DEF reads

\* A smaller number has no longer numeral.
LEMMA NumeralLength ==
    ASSUME NEW n \in 0..MaxId
    PROVE  Len(Numeral[n]) <= MaxDigits
<1> DEFINE long == {k \in Nat : \A m \in 0..k : k <= MaxId =>
                                    Len(Numeral[m]) <= Len(Numeral[k])}
<1>0. \A k \in 0..MaxId : Numeral[k] \in Seq(Digits) /\ Numeral[k] # <<>>
  BY NumeralRead
<1>1. ASSUME NEW k \in Nat, \A l \in 0..(k - 1) : l \in long
      PROVE  k \in long
  <2>1. SUFFICES ASSUME NEW m \in 0..k, k <= MaxId
                 PROVE  Len(Numeral[m]) <= Len(Numeral[k])
    OBVIOUS
  <2>2. m \in 0..MaxId /\ k \in 0..MaxId /\ m \in Nat /\ Base \in Nat
    BY <2>1, IdAssumption
  <2>3. CASE m < Base
    <3>1. Len(Numeral[m]) = 1
      <4>1. Numeral[m] = <<m>>
        BY <2>2, <2>3, NumeralDef
      <4> QED
        BY <4>1
    <3>2. Len(Numeral[k]) >= 1
      BY <1>0, <2>2
    <3> QED
      BY <3>1, <3>2
  <2>4. CASE m >= Base
    <3> DEFINE l == k \div Base
               j == m \div Base
    <3>1. l \in Nat /\ j \in Nat /\ j <= l /\ l < k
      <4>1. k >= Base /\ m >= Base /\ m <= k
        BY <2>1, <2>2, <2>4
      <4> QED
        BY <2>2, <4>1, LastDigit, DivMonotonic
    <3>2. /\ Numeral[m] = Append(Numeral[j], m % Base)
          /\ Numeral[k] = Append(Numeral[l], k % Base)
      <4>1. m >= Base /\ k >= Base
        BY <2>1, <2>2, <2>4
      <4> HIDE DEF long
      <4>2. \A i \in 0..MaxId : i >= Base =>
              Numeral[i] = Append(Numeral[i \div Base], i % Base)
        BY NumeralDef
      <4> QED
        BY <2>2, <4>1, <4>2
    <3> HIDE DEF l, j
    <3>3. j \in 0..l /\ l \in 0..(k - 1) /\ l <= MaxId /\ j \in 0..MaxId /\ l \in 0..MaxId
      BY <2>1, <3>1, IdAssumption
    <3>4. Len(Numeral[j]) <= Len(Numeral[l])
      BY <1>1, <3>3
    <3>5. Numeral[j] \in Seq(Digits) /\ Numeral[l] \in Seq(Digits)
      BY <1>0, <3>3
    <3>6. Len(Numeral[m]) = Len(Numeral[j]) + 1 /\ Len(Numeral[k]) = Len(Numeral[l]) + 1
      BY <3>2, <3>5
    <3> QED
      BY <3>4, <3>5, <3>6
  <2> QED
    BY <2>3, <2>4, IdAssumption
<1>2. \A k \in Nat : k \in long
  <2> HIDE DEF long
  <2> QED
    BY <1>1, StrongInduction
<1>3. MaxId \in long /\ n \in 0..MaxId
  BY <1>2, IdAssumption
<1> QED
  BY <1>3, DigitsAssumption

\* The value of a text of digits without leading zero is one that is written so.
LEMMA ValueWritten ==
    ASSUME NEW s \in Seq(Digits), s # <<>>, s[1] # 0, Value(s) <= MaxId
    PROVE  Value(s) \in 1..MaxId /\ Numeral[Value(s)] = s
<1> DEFINE written(t) == /\ Value(t) > 0
                         /\ Value(t) <= MaxId => Numeral[Value(t)] = t
           right == {k \in Nat : \A t \in Seq(Digits) :
                        Len(t) = k + 1 /\ t[1] # 0 => written(t)}
<1>1. 0 \in right
  <2>1. SUFFICES ASSUME NEW t \in Seq(Digits), Len(t) = 1, t[1] # 0
                 PROVE  written(t)
    OBVIOUS
  <2> DEFINE d == t[1]
  <2>2. d \in Digits /\ t = <<d>> /\ d # 0
    BY <2>1, OneElement
  <2> HIDE DEF d
  <2>3. Value(t) = d /\ d > 0 /\ d < Base /\ d \in Nat
    BY <2>2, ValueDigit, IdAssumption DEF Digits
  <2>4. d <= MaxId => Numeral[d] = <<d>>
    BY <2>3, NumeralDef, IdAssumption
  <2> QED
    BY <2>2, <2>3, <2>4
<1>2. ASSUME NEW k \in Nat, k \in right
      PROVE  k + 1 \in right
  <2>0. k + 1 \in Nat /\ (k + 1) + 1 = k + 2
    OBVIOUS
  <2>1. SUFFICES ASSUME NEW t \in Seq(Digits), Len(t) = k + 2, t[1] # 0
                 PROVE  written(t)
    <3> HIDE DEF written
    <3> QED
      BY <2>0
  <2> DEFINE head == SubSeq(t, 1, k + 1)
             d    == t[k + 2]
  <2>2. /\ head \in Seq(Digits) /\ Len(head) = k + 1 /\ head[1] = t[1]
        /\ d \in Digits /\ t = Append(head, d)
    BY <2>1
  <2> HIDE DEF head, d, written
  <2>3. written(head)
    BY <1>2, <2>1, <2>2
  <2> DEFINE v == Value(head)
  <2>4. v \in Nat /\ v > 0 /\ Value(t) = Base * v + d
    BY <2>2, <2>3, ValueAppend DEF written
  <2>5. ASSUME Value(t) <= MaxId
        PROVE  Numeral[Value(t)] = t
    <3>1. /\ Value(t) \in Nat /\ Value(t) >= Base
          /\ Value(t) \div Base = v /\ Value(t) % Base = d
      BY <2>2, <2>4, DigitAppended
    <3>2. Value(t) \in 0..MaxId /\ v <= MaxId
      BY <2>5, <3>1, LastDigit, IdAssumption
    <3>3. Numeral[Value(t)] = Append(Numeral[v], d)
      BY <3>1, <3>2, NumeralDef
    <3>4. Numeral[v] = head
      BY <2>3, <3>2 DEF written
    <3> QED
      BY <2>2, <3>3, <3>4
  <2>6. Value(t) > 0
    <3>1. Base * v + d >= Base /\ Base * v + d \in Nat
      BY <2>2, <2>4, DigitAppended
    <3> QED
      BY <2>4, <3>1, IdAssumption
  <2>7. written(t)
    BY <2>5, <2>6 DEF written
  <2> QED
    BY <2>7
<1>3. \A k \in Nat : k \in right
  <2> HIDE DEF right
  <2> QED
    BY <1>1, <1>2, Induction
<1>4. Len(s) - 1 \in Nat /\ Len(s) = (Len(s) - 1) + 1
  OBVIOUS
<1> HIDE DEF written
<1>5. written(s)
  BY <1>3, <1>4
<1>6. Value(s) \in Nat
  <2>1. PICK f \in [0..Len(s) -> Nat] : Value(s) = f[Len(s)]
    BY ValueDef
  <2> QED
    BY <2>1
<1> QED
  BY <1>5, <1>6, IdAssumption DEF written

\* A user id is read from its numeral and from no other text.
LEMMA UserIdRead ==
    ASSUME NEW s \in Seq(Chars)
    PROVE  /\ \A n \in 1..MaxId : s = Numeral[n] <=> ParseUserId(s) = UserId(n)
           /\ ParseUserId(s) \in {UserId(n) : n \in 1..MaxId} \cup {Error}
<1>1. ASSUME NEW n \in 1..MaxId, s = Numeral[n]
      PROVE  ParseUserId(s) = UserId(n)
  <2>1. n \in 0..MaxId /\ n > 0 /\ n <= MaxId
    BY IdAssumption
  <2>2. /\ s \in Seq(Digits) /\ s # <<>> /\ s[1] # 0 /\ Value(s) = n
        /\ Len(s) <= MaxDigits
    BY <1>1, <2>1, NumeralRead, NumeralLength
  <2>3. \A i \in DOMAIN s : s[i] \in Digits
    BY <2>2
  <2> QED
    BY <2>1, <2>2, <2>3 DEF ParseUserId, isPositiveDecimal
<1>2. ASSUME ParseUserId(s) # Error
      PROVE  \E n \in 1..MaxId : ParseUserId(s) = UserId(n) /\ s = Numeral[n]
  <2>1. /\ s # <<>> /\ s[1] # 0 /\ Value(s) <= MaxId
        /\ \A i \in DOMAIN s : s[i] \in Digits
        /\ ParseUserId(s) = UserId(Value(s))
    BY <1>2 DEF ParseUserId, isPositiveDecimal
  <2>2. s \in Seq(Digits)
    BY <2>1
  <2> QED
    BY <2>1, <2>2, ValueWritten
<1>3. \A n : UserId(n) # Error /\ \A m : UserId(n) = UserId(m) => n = m
  BY DEF UserId, Error
<1> QED
  BY <1>1, <1>2, <1>3

-----------------------------------------------------------------------------
(* Texts *)

\* A text is cut where a character is first.
LEMMA CutFirst ==
    ASSUME NEW s \in Seq(Chars), NEW char, Contains(s, char)
    PROVE  /\ CutAt(s, char) \in 1..Len(s) /\ s[CutAt(s, char)] = char
           /\ \A i \in 1..Len(s) : s[i] = char => CutAt(s, char) <= i
<1> DEFINE first(i) == i \in DOMAIN s /\ s[i] = char /\ \A j \in 1..(i - 1) : s[j] # char
           none     == {n \in Nat : n \in 1..Len(s) => s[n] # char}
<1>0. Len(s) \in Nat /\ DOMAIN s = 1..Len(s)
  OBVIOUS
<1>1. \E i \in DOMAIN s : first(i)
  <2>1. SUFFICES ASSUME \A i \in DOMAIN s : ~first(i) PROVE FALSE
    OBVIOUS
  <2>2. ASSUME NEW n \in Nat, \A m \in 0..(n - 1) : m \in none
        PROVE  n \in none
    <3>1. SUFFICES ASSUME n \in 1..Len(s), s[n] = char PROVE FALSE
      OBVIOUS
    <3>2. \A j \in 1..(n - 1) : s[j] # char
      BY <1>0, <2>2, <3>1
    <3> QED
      BY <1>0, <2>1, <3>1, <3>2
  <2>3. \A n \in Nat : n \in none
    <3> HIDE DEF none
    <3> QED
      BY <2>2, StrongInduction
  <2> QED
    BY <1>0, <2>3 DEF Contains
<1> DEFINE cut == CHOOSE i \in DOMAIN s : s[i] = char /\ \A j \in 1..(i - 1) : s[j] # char
<1>2. first(cut)
  BY <1>1
<1>3. CutAt(s, char) = cut
  BY DEF CutAt
<1> HIDE DEF cut
<1>4. ASSUME NEW i \in 1..Len(s), s[i] = char
      PROVE  cut <= i
  BY <1>0, <1>2, <1>4
<1> QED
  BY <1>0, <1>2, <1>3, <1>4

\* A text is what is before a place, what is there and what is after it.
LEMMA CutWhole ==
    ASSUME NEW s \in Seq(Chars), NEW i \in 1..Len(s)
    PROVE  /\ SubSeq(s, 1, i - 1) \in Seq(Chars) /\ SubSeq(s, i + 1, Len(s)) \in Seq(Chars)
           /\ s = SubSeq(s, 1, i - 1) \o <<s[i]>> \o SubSeq(s, i + 1, Len(s))
           /\ Len(SubSeq(s, i + 1, Len(s))) = Len(s) - i
           /\ \A j \in 1..(Len(s) - i) : SubSeq(s, i + 1, Len(s))[j] = s[i + j]
<1> DEFINE before == SubSeq(s, 1, i - 1)
           after  == SubSeq(s, i + 1, Len(s))
<1>1. /\ before \in Seq(Chars) /\ Len(before) = i - 1
      /\ \A j \in 1..(i - 1) : before[j] = s[j]
  OBVIOUS
<1>2. /\ after \in Seq(Chars) /\ Len(after) = Len(s) - i
      /\ \A j \in 1..(Len(s) - i) : after[j] = s[i + j]
  OBVIOUS
<1> HIDE DEF before, after
<1> DEFINE whole == before \o <<s[i]>> \o after
<1>3. s[i] \in Chars /\ <<s[i]>> \in Seq(Chars)
  OBVIOUS
<1> DEFINE upTo == before \o <<s[i]>>
<1>4. /\ upTo \in Seq(Chars) /\ Len(upTo) = i
      /\ \A j \in 1..i : upTo[j] = s[j]
  BY <1>1, <1>3, ConcatProperties
<1> HIDE DEF upTo
<1>5. /\ whole \in Seq(Chars) /\ Len(whole) = Len(s)
      /\ \A j \in 1..Len(s) : whole[j] = IF j <= i THEN upTo[j] ELSE after[j - i]
  BY <1>2, <1>4, ConcatProperties DEF upTo
<1> HIDE DEF whole
<1>6. ASSUME NEW j \in 1..Len(s)
      PROVE  whole[j] = s[j]
  <2>1. CASE j <= i
    BY <1>4, <1>5, <2>1
  <2>2. CASE j > i
    <3>1. j - i \in 1..(Len(s) - i) /\ i + (j - i) = j
      BY <2>2
    <3> QED
      BY <1>2, <1>5, <2>2, <3>1
  <2> QED
    BY <2>1, <2>2
<1>7. s = whole
  BY <1>5, <1>6, SeqEqual
<1> QED
  BY <1>1, <1>2, <1>7 DEF before, after, whole, upTo

\* Where a text is cut at a character, the character is not in what is before.
LEMMA NoneBefore ==
    ASSUME NEW s \in Seq(Chars), NEW char, Contains(s, char)
    PROVE  ~Contains(SubSeq(s, 1, CutAt(s, char) - 1), char)
<1> DEFINE cut    == CutAt(s, char)
           before == SubSeq(s, 1, cut - 1)
<1>1. cut \in 1..Len(s) /\ \A i \in 1..Len(s) : s[i] = char => cut <= i
  BY CutFirst
<1> HIDE DEF cut
<1>2. /\ before \in Seq(Chars) /\ Len(before) = cut - 1
      /\ \A j \in 1..(cut - 1) : before[j] = s[j] /\ j \in 1..Len(s) /\ ~(cut <= j)
  BY <1>1
<1> HIDE DEF before
<1>3. ~Contains(before, char)
  BY <1>1, <1>2 DEF Contains
<1> QED
  BY <1>3 DEF before, cut

\* A user set is read from a text with a colon and, after it, a hash, and from
\* no other text that has a hash.  Its namespace ends at the first colon, its
\* object at the first hash after it.
LEMMA UserSetRead ==
    ASSUME NEW s \in Seq(Chars), Contains(s, Hash)
    PROVE  /\ \/ parseSubject(s) = Error
              \/ \E ns, obj, rel : /\ parseSubject(s) = UserSet(ns, obj, rel)
                                   /\ s = ns \o <<Colon>> \o obj \o <<Hash>> \o rel
                                   /\ ~Contains(ns, Colon) /\ ~Contains(obj, Hash)
           /\ \A i, j \in DOMAIN s :
                s[i] = Colon /\ s[j] = Hash /\ i < j => parseSubject(s) # Error
<1> DEFINE colon == CutAt(s, Colon)
           ns    == SubSeq(s, 1, colon - 1)
           rest  == SubSeq(s, colon + 1, Len(s))
           hash  == CutAt(rest, Hash)
           obj   == SubSeq(rest, 1, hash - 1)
           rel   == SubSeq(rest, hash + 1, Len(rest))
<1>0. Len(s) \in Nat /\ DOMAIN s = 1..Len(s) /\ Colon # Hash
  BY IdAssumption DEF Colon, Hash
<1>1. parseSubject(s) = IF ~Contains(s, Colon) \/ ~Contains(rest, Hash) THEN Error
                        ELSE UserSet(ns, obj, rel)
  <2>1. s # AllUsersText /\ s # AuthenticatedUsersText
    <3>1. \A i \in 1..Len(s) : s[i] \in Chars
      OBVIOUS
    <3>2. Base + 3 \notin Chars /\ Base + 4 \notin Chars
      BY IdAssumption DEF Chars
    <3>3. /\ Len(AllUsersText) = 1 /\ AllUsersText[1] = Base + 3
          /\ Len(AuthenticatedUsersText) = 1 /\ AuthenticatedUsersText[1] = Base + 4
      BY DEF AllUsersText, AuthenticatedUsersText
    <3> QED
      BY <3>1, <3>2, <3>3
  <2> QED
    BY <2>1 DEF parseSubject
<1> HIDE DEF colon, ns, rest, hash, obj, rel
<1>2. ASSUME Contains(s, Colon)
      PROVE  /\ colon \in 1..Len(s) /\ \A i \in 1..Len(s) : s[i] = Colon => colon <= i
             /\ rest \in Seq(Chars) /\ s = ns \o <<Colon>> \o rest
             /\ Len(rest) = Len(s) - colon
             /\ \A j \in 1..(Len(s) - colon) : rest[j] = s[colon + j]
             /\ ns \in Seq(Chars) /\ ~Contains(ns, Colon)
  <2>1. /\ colon \in 1..Len(s) /\ s[colon] = Colon
        /\ \A i \in 1..Len(s) : s[i] = Colon => colon <= i
    BY <1>2, CutFirst DEF colon
  <2> QED
    BY <1>2, <2>1, CutWhole, NoneBefore DEF colon, ns, rest
<1>3. ASSUME Contains(s, Colon), Contains(rest, Hash)
      PROVE  s = ns \o <<Colon>> \o obj \o <<Hash>> \o rel
  <2>1. rest \in Seq(Chars) /\ ns \in Seq(Chars) /\ s = ns \o <<Colon>> \o rest
    BY <1>2, <1>3
  <2>2. hash \in 1..Len(rest) /\ rest[hash] = Hash
    BY <1>3, <2>1, CutFirst DEF hash
  <2>3. /\ obj \in Seq(Chars) /\ rel \in Seq(Chars)
        /\ rest = obj \o <<Hash>> \o rel
    BY <2>1, <2>2, CutWhole DEF obj, rel
  <2>4. <<Colon>> \in Seq(Chars) /\ <<Hash>> \in Seq(Chars)
    <3>1. Colon \in Chars /\ Hash \in Chars
      BY IdAssumption DEF Chars, Colon, Hash
    <3> QED
      BY <3>1
  <2> DEFINE Join(u, v) == u \o v
             x == <<Colon>>
             y == <<Hash>>
  <2>5. ASSUME NEW u \in Seq(Chars), NEW v \in Seq(Chars), NEW w \in Seq(Chars)
        PROVE  Join(Join(u, v), w) = Join(u, Join(v, w)) /\ Join(u, v) \in Seq(Chars)
    OBVIOUS
  <2>6. /\ x \in Seq(Chars) /\ y \in Seq(Chars) /\ ns \in Seq(Chars)
        /\ obj \in Seq(Chars) /\ rel \in Seq(Chars)
    BY <2>1, <2>3, <2>4
  <2>7. s = Join(Join(ns, x), rest) /\ rest = Join(Join(obj, y), rel)
    BY <2>1, <2>3
  <2> HIDE DEF Join, x, y
  <2>8. Join(Join(ns, x), Join(Join(obj, y), rel)) =
          Join(Join(Join(Join(ns, x), obj), y), rel)
    BY ONLY <2>5, <2>6
  <2>9. s = Join(Join(Join(Join(ns, x), obj), y), rel)
    BY <2>7, <2>8
  <2> QED
    BY <2>9 DEF Join, x, y
<1>4. ASSUME NEW i \in DOMAIN s, NEW j \in DOMAIN s, s[i] = Colon, s[j] = Hash, i < j
      PROVE  parseSubject(s) # Error
  <2>1. Contains(s, Colon)
    BY <1>0, <1>4 DEF Contains
  <2>2. colon <= i
    BY <1>0, <1>2, <1>4, <2>1
  <2>3. j - colon \in 1..(Len(s) - colon) /\ rest[j - colon] = Hash
    <3>1. colon \in 1..Len(s)
      BY <1>2, <2>1
    <3>2. j - colon \in 1..(Len(s) - colon) /\ colon + (j - colon) = j
      BY <1>0, <1>4, <2>2, <3>1
    <3> QED
      BY <1>2, <1>4, <2>1, <3>2
  <2>4. Contains(rest, Hash)
    BY <1>2, <2>1, <2>3 DEF Contains
  <2> QED
    BY <1>1, <2>1, <2>4 DEF UserSet, Error
<1>5. ASSUME Contains(s, Colon), Contains(rest, Hash)
      PROVE  ~Contains(ns, Colon) /\ ~Contains(obj, Hash)
  BY <1>2, <1>5, NoneBefore DEF hash, obj
<1> QED
  BY <1>1, <1>3, <1>4, <1>5

\* A text without a hash is no user set.
LEMMA NumberRead ==
    ASSUME NEW s \in Seq(Chars), ~Contains(s, Hash)
    PROVE  parseSubject(s) = ParseUserId(s)
<1>1. \A i \in 1..Len(s) : s[i] \in Chars
  OBVIOUS
<1>2. Base + 3 \notin Chars /\ Base + 4 \notin Chars
  BY IdAssumption DEF Chars
<1>3. /\ Len(AllUsersText) = 1 /\ AllUsersText[1] = Base + 3
      /\ Len(AuthenticatedUsersText) = 1 /\ AuthenticatedUsersText[1] = Base + 4
  BY DEF AllUsersText, AuthenticatedUsersText
<1>4. s # AllUsersText /\ s # AuthenticatedUsersText
  BY <1>1, <1>2, <1>3
<1> QED
  BY <1>4 DEF parseSubject
=============================================================================
