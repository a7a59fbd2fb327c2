--------------------------------- MODULE Dial ---------------------------------
(***************************************************************************)
(* src/dial.go: credentials from files, and a connection to check or to    *)
(* the session service.  A path is empty, or names a file that is good or  *)
(* bad (missing, unreadable, not a key pair, without certificates).        *)
(***************************************************************************)
Paths   == {"", "good", "bad"}
Targets == {"", "host"}

\* Without a key pair the channel is insecure, whatever the CA path.
LoadTLSCredentials(cert, key, ca) ==
    IF cert = "" /\ key = "" THEN "insecure"
    ELSE IF "" \in {cert, key} \/ "bad" \in {cert, key, ca} THEN "error"
    ELSE "tls"

\* grpc.NewClient connects later; only an empty target fails here.
dial(target, creds) == IF target = "" \/ creds = "error" THEN "error" ELSE creds

\* DialSession is the same for the other service.
DialCheck(target, creds) == dial(target, IF creds = "nil" THEN "insecure" ELSE creds)

DialCheckInsecure(target) == DialCheck(target, "insecure")
=============================================================================
