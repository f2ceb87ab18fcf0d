--------------------------- MODULE CredentialCaches ---------------------------
(***************************************************************************)
(* The caches a process keeps of what other services lend it: the          *)
(* courier's access token, the courier's list of vendors and the signing   *)
(* keys of the identity provider.  Each is read without a lock, and read   *)
(* again under a lock before it is fetched.  The courier's caches test     *)
(* freshness against the time the caller came, however long it waited for  *)
(* the lock; the keys' cache takes the time again.  Fetching the vendors   *)
(* asks for a token while the vendors' lock is held.                       *)
(*                                                                         *)
(* A token is good until the courier's daily cutoff, or for as long as the *)
(* answer says.  How long a fetch takes is a parameter: the client bounds  *)
(* the phases of a request, not the whole.                                 *)
(***************************************************************************)
EXTENDS Integers, Sequences

CONSTANTS
  Callers,    \* requests that use the caches
  Cutoff,     \* time between two cutoffs of the courier's tokens
  Margin,     \* _TOKEN_REFRESH_MARGIN
  Ttl,        \* _VENDOR_CACHE_TTL and clerk_jwks_cache_ttl_seconds
  Lifetime,   \* expires_in, or the 30 minutes of an answer without an expiry
  Timeout,    \* the longest a fetch takes
  Horizon     \* bound on the clock

ASSUME CachesAssumption ==
  /\ {Cutoff, Ttl, Lifetime, Timeout} \subseteq Nat \ {0} /\ {Margin, Horizon} \subseteq Nat
  /\ Cutoff <= Horizon

Caches == {"token", "vendors", "keys"}

VARIABLES
  clock,    \* the time, of this process and of the courier
  entry,    \* per cache, expires_at of the token or fetched_at of the rest
  lock,     \* per cache, who has the lock or queues for it, in that order
  caller,   \* where each caller is
  handed,   \* auxiliary: the token handed out of the cache last
  crowded   \* history: more callers queued for the token than the margin has room for

cacheVars == <<clock, entry, lock, caller, handed, crowded>>

\* The fetches that fit the margin.
Room == Margin \div Timeout

Stage == {"out", "waiting", "fetching"}

CallerRow == [at : [Caches -> Stage], asked : [Caches -> 0..Horizon], began : 0..Horizon,
              holdsToken : BOOLEAN]

Out == [at |-> [k \in Caches |-> "out"], asked |-> [k \in Caches |-> 0], began |-> 0,
        holdsToken |-> FALSE]

NotYet == [expires |-> 1, when |-> 0]

CachesInit ==
  /\ clock \in 0..Cutoff - 1   \* the process starts at some time of the day
  /\ entry = [k \in Caches |-> -Ttl]   \* stale from the start: none
  /\ lock = [k \in Caches |-> <<>>]
  /\ caller = [c \in Callers |-> Out]
  /\ handed = NotYet
  /\ crowded = FALSE

-----------------------------------------------------------------------------
(* Reading *)

\* Mutant: a token is used until the moment it expires.
FreshToTheEnd(k, t) == IF k = "token" THEN entry[k] > t ELSE t - entry[k] < Ttl

\* The entry may still be used by a caller who reads the time t.
Fresh(k, t) == IF k = "token" THEN entry[k] - Margin > t ELSE t - entry[k] < Ttl

\* The caller may ask: it is new, or it needs a token to fetch the vendors.
MayAsk(c, k) ==
  \/ caller[c] = Out
  \/ k = "token" /\ caller[c].at["vendors"] = "fetching" /\ caller[c].at["token"] = "out"
     /\ ~caller[c].holdsToken

\* What the caller does with an answer: a token may serve the vendors' fetch.
Answered(c, k) ==
  IF k = "token" /\ caller[c].at["vendors"] = "fetching"
  THEN [caller[c] EXCEPT !.at["token"] = "out", !.holdsToken = TRUE, !.began = clock]
  ELSE Out

\* A token handed out of the cache, with the time it expires.
Hand(k) == handed' = IF k = "token" THEN [expires |-> entry[k], when |-> clock] ELSE handed

\* The look without the lock.
Ask(c, k) ==
  /\ MayAsk(c, k)
  /\ IF Fresh(k, clock)
     THEN caller' = [caller EXCEPT ![c] = Answered(c, k)] /\ Hand(k)
     ELSE /\ caller' = [caller EXCEPT ![c] = [@ EXCEPT !.at[k] = "waiting", !.asked[k] = clock]]
          /\ UNCHANGED handed
  /\ lock' = IF Fresh(k, clock) THEN lock ELSE [lock EXCEPT ![k] = Append(@, c)]
  /\ crowded' = (crowded \/ Len(lock'["token"]) > Room)
  /\ UNCHANGED <<clock, entry>>

\* The time the second look compares with.
Seen(c, k) == IF k = "keys" THEN clock ELSE caller[c].asked[k]

\* The lock is the caller's (asyncio hands it on in the order of the requests):
\* the second look, and then the fetch.
Enter(c, k) ==
  /\ caller[c].at[k] = "waiting" /\ Head(lock[k]) = c
  /\ IF Fresh(k, Seen(c, k))
     THEN /\ caller' = [caller EXCEPT ![c] = Answered(c, k)] /\ Hand(k)
          /\ lock' = [lock EXCEPT ![k] = Tail(@)]
     ELSE /\ caller' = [caller EXCEPT ![c] = [@ EXCEPT !.at[k] = "fetching", !.began = clock]]
          /\ UNCHANGED <<lock, handed>>
  /\ UNCHANGED <<clock, entry, crowded>>

-----------------------------------------------------------------------------
(* Fetching *)

\* The request to the other service is on its way.
Calling(c, k) ==
  /\ caller[c].at[k] = "fetching"
  /\ k = "vendors" => caller[c].holdsToken

\* The cutoff after a time.
NextCutoff(t) == Cutoff * (t \div Cutoff + 1)

\* What the entry keeps: the token's expiry, or when the rest was fetched; the
\* vendors are dated back to when the caller came.
Kept(c, k, expiry) ==
  CASE k = "token" -> expiry [] k = "vendors" -> caller[c].asked[k] [] OTHER -> clock

\* The answer, which the courier made at some moment since the call, tells the
\* cutoff; one that does not is given its lifetime from the time it came.
Expiries(c) == {NextCutoff(issued) : issued \in caller[c].began..clock} \cup {clock + Lifetime}

Fetched(c, k, expiry) ==
  /\ Calling(c, k)
  /\ entry' = [entry EXCEPT ![k] = Kept(c, k, expiry)]
  /\ lock' = [lock EXCEPT ![k] = Tail(@)]
  /\ caller' = [caller EXCEPT ![c] = Answered(c, k)]
  /\ UNCHANGED <<clock, handed, crowded>>

\* An error, also of the token the vendors need: the exception leaves every
\* lock the caller is in.
FetchFails(c, k) ==
  /\ Calling(c, k)
  /\ lock' = [j \in Caches |-> IF caller[c].at[j] = "fetching" THEN Tail(lock[j]) ELSE lock[j]]
  /\ caller' = [caller EXCEPT ![c] = Out]
  /\ UNCHANGED <<clock, entry, handed, crowded>>

\* Time passes while calls are out, up to the longest; the event loop runs
\* whoever can run before that.
CacheTick ==
  /\ clock < Horizon
  /\ \A c \in Callers, k \in Caches :
       /\ Calling(c, k) => clock < caller[c].began + Timeout
       /\ caller[c].at[k] = "waiting" => Head(lock[k]) # c
  /\ \A c \in Callers : caller[c].at["vendors"] = "fetching" => ~MayAsk(c, "token")
  /\ clock' = clock + 1
  /\ UNCHANGED <<entry, lock, caller, handed, crowded>>

CachesNext ==
  \/ \E c \in Callers, k \in Caches : Ask(c, k)
  \/ \E c \in Callers, k \in Caches : Enter(c, k)
  \/ \E c \in Callers, k \in Caches : \E expiry \in Expiries(c) : Fetched(c, k, expiry)
  \/ \E c \in Callers, k \in Caches : FetchFails(c, k)
  \/ CacheTick

CachesSpec == CachesInit /\ [][CachesNext]_cacheVars

-----------------------------------------------------------------------------
(* What must hold *)

CachesTypeOK ==
  /\ clock \in 0..Horizon
  /\ entry \in [Caches -> Int]
  /\ lock \in [Caches -> Seq(Callers)]
  /\ caller \in [Callers -> CallerRow]
  /\ handed \in [expires : Int, when : Nat] /\ crowded \in BOOLEAN

\* A token taken from the cache has not expired, although the caller may have
\* waited behind the fetches of others and compares with the time it came; the
\* margin pays for that as long as no longer queue forms than it has room for.
TokenAlive == ~crowded => handed.when < handed.expires
=============================================================================
