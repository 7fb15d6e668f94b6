---------------------------- MODULE ConfigServer ----------------------------
(***************************************************************************)
(* The config server of the director and the client through which ibosh    *)
(* reads and deletes credentials (internal/configserver/client.go).        *)
(*                                                                         *)
(* Every request carries a token of the UAA, which the client keeps and    *)
(* asks for anew half a minute before it believes it to expire.  Time is   *)
(* counted in half minutes.  The UAA counts the life of a token from its   *)
(* issue, the client from the arrival of the reply, so what the client     *)
(* believes is late by the time of the reply; and the request that carries *)
(* the token needs time too.                                               *)
(***************************************************************************)
EXTENDS Naturals

CONSTANTS
  Clients,     \* the commands that may hold a client
  Names,       \* the names of credentials
  Generations, \* the values a name has had, told apart as far as needed
  Absent,      \* no value
  Lifetimes,   \* expires_in of the UAA's replies
  MaxDelay     \* the longest an exchange takes: the timeout of the HTTP client

ASSUME AbsentAssumption == Absent \notin Generations
ASSUME GenerationsAssumption == \A old \in Generations \cup {Absent} : Generations \ {old} # {}

VARIABLES
  stored,      \* value of every name
  token        \* of every client: how long it believes its token to live, and how
               \* long it does; no token is one that has expired

configVars == <<stored, token>>

Buffer == 1

\* The UAA issues no token that the client would hold for expired at once.
ASSUME LifetimesAssumption ==
  /\ MaxDelay \in Nat
  /\ Lifetimes \subseteq Nat /\ \A life \in Lifetimes : life > Buffer

NoToken == [claimed |-> 0, real |-> 0]

ConfigTypeOK ==
  /\ stored \in [Names -> Generations \cup {Absent}]
  /\ token \in [Clients -> [claimed : Nat, real : Nat]]

-----------------------------------------------------------------------------
Later(units, delay) == IF units > delay THEN units - delay ELSE 0

Aged(t, delay) == [claimed |-> Later(t.claimed, delay), real |-> Later(t.real, delay)]

\* Mutant: the token is used until the client believes it expired.
AccessTokensUnbuffered(t, delay) ==
  IF t.claimed > 0 THEN {t}
  ELSE {[claimed |-> life, real |-> Later(life, delay)] : life \in Lifetimes}

\* getAccessToken: the tokens it may return when the reply takes as long as delay.
AccessTokens(t, delay) ==
  IF t.claimed > Buffer THEN {t}
  ELSE {[claimed |-> life, real |-> Later(life, delay)] : life \in Lifetimes}

\* One request with token t: whether the config server accepts the token when it arrives,
\* whether it came in time, and what is left of the token afterwards.  In time is when the
\* reply that brought the token and the request that carries it took no longer together
\* than the buffer.  Each has the whole timeout of the HTTP client, which is as long as the
\* buffer, so together they may well take longer.
Sent(t) ==
  UNION {{[accepted |-> sent.real > request,
           timely   |-> sent.claimed + request <= sent.real + Buffer,
           left     |-> Aged(sent, request)] : sent \in AccessTokens(t, reply)} :
         reply, request \in 0 .. MaxDelay}

\* Client.Get: the answer is the value, or Absent for 404, an empty list and any
\* other failure alike: each is an error to the caller, which has no use for the client
\* once it has a value.
Get(c, name, answer, timely) ==
  \E sent \in Sent(token[c]) :
    /\ timely = sent.timely
    /\ answer = IF sent.accepted THEN stored[name] ELSE Absent
    /\ token' = [token EXCEPT ![c] = IF answer = Absent THEN sent.left ELSE NoToken]
    /\ UNCHANGED stored

\* Client.Delete, whose callers treat 404 like a success.
Delete(c, name, timely) ==
  \E sent \in Sent(token[c]) :
    /\ timely = sent.timely
    /\ token' = [token EXCEPT ![c] = sent.left]
    /\ stored' = IF sent.accepted THEN [stored EXCEPT ![name] = Absent] ELSE stored

\* Client.Delete when the UAA or the config server fails or cannot be reached, or
\* the reply is lost.
DeleteFails(c, name) ==
  /\ \E sent \in Sent(token[c]) : token' = [token EXCEPT ![c] = sent.left]
  /\ stored' \in {stored, [stored EXCEPT ![name] = Absent]}

\* A command makes its own client and the token is gone with it.
Forget(c) == token' = [token EXCEPT ![c] = NoToken]
=============================================================================
