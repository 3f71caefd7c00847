----------------------------- MODULE Admission ------------------------------
(***************************************************************************)
(* What stands before the Noise handshake: HandshakeRateLimiter and        *)
(* HandshakeCookieManager, as handle_handshake_init_frame uses them.       *)
(*                                                                         *)
(* Times are kept as ages.  An age stops growing at the value from which   *)
(* on the code makes no difference, so time needs no bound.  A cookie is   *)
(* the frame it was issued for and the secret that derive hashed, known by *)
(* what the manager still holds it as: "current", "previous", or "gone".   *)
(* An initiator keeps the cookie it got last, so each frame has one.       *)
(***************************************************************************)
EXTENDS Integers, FiniteSets

CONSTANTS
  InitArrival,       \* INITs that may arrive: [source, init], an endpoint and its frame
  SourceKey,         \* source_key: the address of an endpoint, for IPv6 its /64
  PerSourceLimit, GlobalLimit, MaxSources, LimitWindow,   \* HandshakeRateLimitConfig
  RotationInterval   \* HandshakeCookieConfig

ASSUME AdmissionAssumption ==
  /\ {PerSourceLimit, GlobalLimit, MaxSources, LimitWindow, RotationInterval} \subseteq Nat \ {0}
  /\ \A f \in InitArrival : f.source \in DOMAIN SourceKey

VARIABLES
  limiter,   \* [age, count, sources]: the global window and sources_
  cookies,   \* [current, previous, age]: has_current_, has_previous_, the age of rotated_at_
  issued,    \* for each frame, the cookie last issued for it: [secret, age]
  recent,    \* history: the INITs let through within a window: [key, ago, nr]
  worked     \* history: <<f, g>>: handle_handshake_init ran for f with the cookie of g

admissionVars == <<limiter, cookies, issued, recent, worked>>

Keys == {SourceKey[f.source] : f \in InitArrival}

AdmissionInit ==
  /\ limiter = [age |-> 0, count |-> 0, sources |-> <<>>]
  /\ cookies = [current |-> FALSE, previous |-> FALSE, age |-> 0]
  /\ issued = [f \in InitArrival |-> [secret |-> "none", age |-> 0]]
  /\ recent = {}
  /\ worked = {}

-----------------------------------------------------------------------------
(* HandshakeRateLimiter.                                                   *)

(* reset_global_if_expired and purge_expired_sources.                      *)
FreshWindows(l) ==
  LET live == {k \in DOMAIN l.sources : l.sources[k].age < LimitWindow}
  IN  [age |-> IF l.age >= LimitWindow THEN 0 ELSE l.age,
       count |-> IF l.age >= LimitWindow THEN 0 ELSE l.count,
       sources |-> [k \in live |-> l.sources[k]]]

(* The tests of allow, for source key k.                                   *)
Admits(l, k) ==
  /\ k \in DOMAIN l.sources => l.sources[k].count < PerSourceLimit
  /\ l.count < GlobalLimit
  /\ k \notin DOMAIN l.sources => Cardinality(DOMAIN l.sources) < MaxSources

Charged(l, k) ==
  LET b == IF k \in DOMAIN l.sources THEN l.sources[k] ELSE [age |-> 0, count |-> 0]
  IN  [l EXCEPT !.count = @ + 1,
                !.sources = [j \in DOMAIN @ \cup {k} |->
                               IF j = k THEN [b EXCEPT !.count = @ + 1] ELSE @[j]]]

-----------------------------------------------------------------------------
(* HandshakeCookieManager.                                                 *)

RotationDue(c) == ~c.current \/ c.age >= RotationInterval

(* Bug variant of KeepsSecret: every rotation drops the previous secret.   *)
KeepsNever(c) == FALSE

(* A rotation keeps the current secret as the previous one.                *)
KeepsSecret(c) == c.current /\ c.age < 2 * RotationInterval

(* What the manager holds a secret as after a rotation.                    *)
Passed(secret, c) ==
  CASE secret = "current" /\ KeepsSecret(c) -> "previous"
    [] secret = "none" -> "none"
    [] OTHER -> "gone"

(* rotate_if_needed, the random source working or not: the state is the    *)
(* manager's [c] and the cookies outside [iss].                            *)
Rotated(st, random) ==
  IF RotationDue(st.c) /\ random
  THEN [c |-> [current |-> TRUE, previous |-> KeepsSecret(st.c), age |-> 0],
        iss |-> [f \in InitArrival |-> [st.iss[f] EXCEPT !.secret = Passed(@, st.c)]]]
  ELSE st

(* verify of the cookie of g for the frame f, once rotate_if_needed ran.   *)
VerifyCookie(st, g, f) ==
  /\ ~RotationDue(st.c)
  /\ st.iss[g].secret = "current" \/ (st.c.previous /\ st.iss[g].secret = "previous")
  /\ g = f

-----------------------------------------------------------------------------
(* handle_handshake_init_frame, up to the call of handle_handshake_init.   *)

(* The rate limiter refuses the frame.                                     *)
RefuseInit(f) ==
  LET l == FreshWindows(limiter)
  IN  /\ ~Admits(l, SourceKey[f.source])
      /\ limiter' = l
      /\ UNCHANGED <<cookies, issued, recent, worked>>

(* An INIT of key k is let through now, the nr-th of its key at this time. *)
Passes(k) ==
  [key |-> k, ago |-> 0, nr |-> Cardinality({e \in recent : e.key = k /\ e.ago = 0})]

LetThrough(f) ==
  LET k == SourceKey[f.source]
      l == FreshWindows(limiter)
  IN  /\ Admits(l, k)
      /\ limiter' = Charged(l, k)
      /\ recent' = recent \cup {Passes(k)}

Cookies == [c |-> cookies, iss |-> issued]

(* issue: a challenge goes out, unless a new secret is due and cannot be   *)
(* drawn.                                                                  *)
IssueCookie(st, f, random) ==
  LET r == Rotated(st, random)
  IN  /\ cookies' = r.c
      /\ issued' = IF RotationDue(r.c) THEN r.iss
                   ELSE [r.iss EXCEPT ![f] = [secret |-> "current", age |-> 0]]
      /\ worked' = {}

(* A frame of another length: it is charged all the same.                  *)
MalformedInit(f) == LetThrough(f) /\ worked' = {} /\ UNCHANGED <<cookies, issued>>

(* An INIT without a cookie.                                               *)
BareInit(f, random) == LetThrough(f) /\ IssueCookie(Cookies, f, random)

(* An INIT f with the cookie of g: verify, and issue if it fails.          *)
CookieInit(f, g, random1, random2) ==
  LET st == Rotated(Cookies, random1)
  IN  /\ issued[g].secret # "none"
      /\ LetThrough(f)
      /\ IF VerifyCookie(st, g, f)
         THEN cookies' = st.c /\ issued' = st.iss /\ worked' = {<<f, g>>}
         ELSE IssueCookie(st, f, random2)

-----------------------------------------------------------------------------
Older(age, max) == IF age = max THEN max ELSE age + 1

OlderSources(s) == [k \in DOMAIN s |-> [s[k] EXCEPT !.age = Older(@, LimitWindow)]]

OlderWindows(l) == [l EXCEPT !.age = Older(@, LimitWindow), !.sources = OlderSources(@)]

Earlier(e) == [e EXCEPT !.ago = @ + 1]

(* The longest that a cookie can be accepted.                              *)
CookieEnd == 3 * RotationInterval

(* Time passes.                                                            *)
AdmissionTick ==
  /\ limiter' = OlderWindows(limiter)
  /\ cookies' = [cookies EXCEPT !.age = Older(@, 2 * RotationInterval)]
  /\ issued' = [f \in InitArrival |->
       IF issued[f].secret = "none" THEN issued[f] ELSE [issued[f] EXCEPT !.age = Older(@, CookieEnd)]]
  /\ recent' = {Earlier(e) : e \in {d \in recent : d.ago < LimitWindow - 1}}
  /\ worked' = {}

AdmissionNext ==
  \/ \E f \in InitArrival :
       \/ RefuseInit(f) \/ MalformedInit(f)
       \/ \E random \in BOOLEAN : BareInit(f, random)
       \/ \E g \in InitArrival : \E random1, random2 \in BOOLEAN : CookieInit(f, g, random1, random2)
  \/ AdmissionTick

-----------------------------------------------------------------------------
(* Types of the variables.                                                 *)
AdmissionTypeOK ==
  /\ limiter.age \in 0 .. LimitWindow /\ limiter.count \in 0 .. GlobalLimit
  /\ DOMAIN limiter.sources \subseteq Keys /\ Cardinality(DOMAIN limiter.sources) <= MaxSources
  /\ \A k \in DOMAIN limiter.sources :
       limiter.sources[k] \in [age : 0 .. LimitWindow, count : 1 .. PerSourceLimit]
  /\ cookies \in [current : BOOLEAN, previous : BOOLEAN, age : 0 .. 2 * RotationInterval]
  /\ issued \in [InitArrival -> [secret : {"none", "current", "previous", "gone"}, age : 0 .. CookieEnd]]

(* However the windows of a source and of the node fall, no stretch of     *)
(* time as long as a window lets more than 2 * PerSourceLimit - 1 INITs of *)
(* one source through (its window starts with an INIT), and no more than   *)
(* 2 * GlobalLimit of all sources.                                         *)
RateBounded ==
  /\ \A k \in Keys : Cardinality({e \in recent : e.key = k}) <= 2 * PerSourceLimit - 1
  /\ Cardinality(recent) <= 2 * GlobalLimit

(* A cookie answers its challenge for a whole rotation interval after it   *)
(* was issued, whatever rotations happen in between, as long as random     *)
(* numbers can be drawn; three intervals after, it never does.             *)
CookieLife ==
  \A f \in InitArrival :
    issued[f].secret # "none" =>
      LET accepted == VerifyCookie(Rotated(Cookies, TRUE), f, f)
      IN  (issued[f].age <= RotationInterval => accepted) /\ (issued[f].age >= CookieEnd => ~accepted)

(* Noise runs only for a frame whose own cookie came back, from the        *)
(* endpoint the cookie was sent to, before it was too old.                 *)
WorkProved == \A w \in worked : w[1] = w[2] /\ issued[w[2]].age < CookieEnd

(* Admission lets an INIT pass at the rate its limits allow, and on to     *)
(* Noise only with a live cookie of its own.                               *)
AdmissionSound == RateBounded /\ CookieLife /\ WorkProved
=============================================================================
