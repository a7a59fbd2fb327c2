-------------------------------- MODULE MCWatch --------------------------------
EXTENDS WatchStream

MCNames == {"doc", "dir", "o", "r", "parent", "...", "impossible"}

MCTexts ==
    UNION {[1..n -> Chars] : n \in 0..4} \cup {AllUsersText, AuthenticatedUsersText}

ToUser    == Tuple("doc", "o", "r", UserId(1), Forever)
ToUserSet == Tuple("doc", "o", "r", UserSet("dir", "o", "r"), 3)
ToNobody  == Tuple("doc", "o", "r", UserId(0), -3)
ToUnknown == Tuple("dir", "o", "r", Wildcard(3), Forever)

ToImpossible == Tuple("doc", "o", "impossible", UserId(1), Forever)

MCTuples == {ToNobody}

MCMaxCommits == [p \in Programs |-> IF p = "watches" THEN 3 ELSE 2]
MCMaxAdrift  == [p \in Programs |-> IF p = "asks" THEN 0 ELSE 1]

MCBatches ==
    {<<{ToUserSet}, {ToUser}>>, <<{ToUser, ToUnknown}, {}>>, <<{}, {ToUserSet}>>}

MCQuestions ==
    {ToUser, ToNobody, ToUserSet, ToUnknown, ToImpossible}

Wired(ns, user) == WireTuple(ns, "o", "r", user, Forever)

MCForeignBatches ==
    {<<{Wired("doc", WireId(2))}, {}>>,
     <<{Wired("doc", UnknownUser)}, {}>>,
     <<{Wired("dir", WireWildcard(1))}, {}>>,
     <<{Wired("doc", WireUserSet("dir", "o", "r"))}, {Wired("doc", WireId(2))}>>}
=============================================================================
