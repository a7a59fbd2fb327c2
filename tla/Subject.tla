------------------------------- MODULE Subject -------------------------------
(***************************************************************************)
(* src/subject.go: who a tuple, a check or a list is about, the texts it   *)
(* is read from and its wire form.                                         *)
(*                                                                         *)
(* A text is a sequence of characters.  Digits stand for themselves, in a  *)
(* radix Base instead of ten; the words allUsers and authenticatedUsers    *)
(* are two texts that contain no digit.                                    *)
(***************************************************************************)
EXTENDS Integers, SequencesExt

CONSTANTS
    Base,       \* ten
    MaxDigits,  \* the digits of MaxId: 19
    MaxId       \* the largest int64: 9223372036854775807

ASSUME IdAssumption ==
    /\ Base \in Nat /\ Base > 1
    /\ MaxDigits \in Nat /\ MaxId \in Nat \ {0}

Int64 == (-MaxId - 1)..MaxId

Digits == 0..(Base - 1)
Sign   == Base        \* + or -
Colon  == Base + 1
Hash   == Base + 2
Chars  == 0..(Base + 2)

\* A word without digits, colons and hashes counts as one more character.
AllUsersText           == <<Base + 3>>
AuthenticatedUsersText == <<Base + 4>>

ArgumentTexts == Seq(Chars) \cup {AllUsersText, AuthenticatedUsersText}

\* The numeral of n without leading zeros.
Numeral[n \in 0..MaxId] ==
    IF n < Base THEN <<n>> ELSE Append(Numeral[n \div Base], n % Base)

ASSUME DigitsAssumption == Len(Numeral[MaxId]) = MaxDigits

(***************************************************************************)
(* A subject is a UserId, a UserSet or a Wildcard.  The conversions        *)
(* UserId(n) and Wildcard(n) of Go take any number; nil and pointers are   *)
(* subjects to the compiler only.  A result is a subject or an error.      *)
(***************************************************************************)
UserId(n)             == [kind |-> "userId", id |-> n]
UserSet(ns, obj, rel) == [kind |-> "userSet", ns |-> ns, obj |-> obj, rel |-> rel]
Wildcard(code)        == [kind |-> "wildcard", code |-> code]
OtherSubject          == [kind |-> "other"]
Error                 == [kind |-> "error"]

Codes              == 0..3
AllUsers           == Wildcard(1)
AuthenticatedUsers == Wildcard(2)

Subjects(ids, userSets) ==
    {UserId(n) : n \in ids} \cup userSets
        \cup {Wildcard(code) : code \in Codes} \cup {OtherSubject}

\* What the package says a subject is.
Proper(sub) ==
    \/ sub.kind = "userId" /\ sub.id > 0
    \/ sub.kind = "userSet"
    \/ sub \in {AllUsers, AuthenticatedUsers}

-----------------------------------------------------------------------------
(* Texts *)

isPositiveDecimal(s) ==
    /\ s # <<>> /\ Len(s) <= MaxDigits /\ s[1] # 0
    /\ \A i \in DOMAIN s : s[i] \in Digits

\* The number the digits of s make.
Value(s) ==
    LET value[i \in 0..Len(s)] == IF i = 0 THEN 0 ELSE Base * value[i - 1] + s[i]
    IN  value[Len(s)]

\* Mutant: the length is trusted to keep the number in range.
ParseUserIdByLength(s) ==
    IF isPositiveDecimal(s) THEN UserId(Value(s)) ELSE Error

\* A decimal that fits in an int64.
ParseUserId(s) ==
    IF isPositiveDecimal(s) /\ Value(s) <= MaxId THEN UserId(Value(s)) ELSE Error

NewUserId(n) == IF n <= 0 THEN Error ELSE UserId(n)

\* Where the text s is cut at a character: before its first occurrence.
CutAt(s, char) ==
    CHOOSE i \in DOMAIN s : s[i] = char /\ \A j \in 1..(i - 1) : s[j] # char

\* parseSubject of the write example: a wildcard's name, ns:obj#rel, or an id.
\* Everything before the first colon is the namespace, hashes included.
parseSubject(s) ==
    IF s = AllUsersText THEN AllUsers
    ELSE IF s = AuthenticatedUsersText THEN AuthenticatedUsers
    ELSE IF ~Contains(s, Hash) THEN ParseUserId(s)
    ELSE IF ~Contains(s, Colon) THEN Error
    ELSE LET colon == CutAt(s, Colon)
             rest  == SubSeq(s, colon + 1, Len(s))
         IN  IF ~Contains(rest, Hash) THEN Error
             ELSE UserSet(SubSeq(s, 1, colon - 1),
                          SubSeq(rest, 1, CutAt(rest, Hash) - 1),
                          SubSeq(rest, CutAt(rest, Hash) + 1, Len(rest)))

-----------------------------------------------------------------------------
(* Wire forms: the oneof user of a message *)

Missing         == [case |-> "missing"]
EmptyUserSet    == [case |-> "emptyUserSet"]
UnknownUser     == [case |-> "unknown"]
WireId(n)       == [case |-> "userId", value |-> n]
WireUserSet(ns, obj, rel) == [case |-> "userSet", ns |-> ns, obj |-> obj, rel |-> rel]
WireWildcard(w) == [case |-> "wildcard", value |-> w]

\* A wildcard the package does not name has no wire form.
wildcardToProto(sub) ==
    IF sub \in {AllUsers, AuthenticatedUsers} THEN WireWildcard(sub.code) ELSE Error

wildcardFromProto(w) == IF w \in {1, 2} THEN Wildcard(w) ELSE Error

userSetToProto(sub) == WireUserSet(sub.ns, sub.obj, sub.rel)
userSetFromProto(us) == UserSet(us.ns, us.obj, us.rel)

\* The field a subject becomes.  An id is sent as it is, positive or not.
WireUser(sub) ==
    IF sub.kind = "userId" THEN WireId(sub.id)
    ELSE IF sub.kind = "userSet" THEN userSetToProto(sub)
    ELSE IF sub.kind = "wildcard" THEN wildcardToProto(sub)
    ELSE Error

\* The five messages that name a subject set it alike.
WithUser(msg, sub) ==
    IF WireUser(sub) = Error THEN Error ELSE [msg EXCEPT !.user = WireUser(sub)]

setCheckRequestUser(req, sub)              == WithUser(req, sub)
setContentChangeCheckRequestUser(req, sub) == WithUser(req, sub)
setListRequestUser(req, sub)               == WithUser(req, sub)
setTupleUser(tuple, sub)                   == WithUser(tuple, sub)
setUserSetSpecUser(spec, sub)              == WithUser(spec, sub)

\* The subject of a tuple that was received: what is not a proper subject, or
\* is of a kind this client does not know, is an error.
tupleSubjectFromProto(user) ==
    IF user.case = "userId" THEN NewUserId(user.value)
    ELSE IF user.case = "userSet" THEN userSetFromProto(user)
    ELSE IF user.case = "wildcard" THEN wildcardFromProto(user.value)
    ELSE Error
=============================================================================
