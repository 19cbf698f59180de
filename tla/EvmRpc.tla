------------------------------- MODULE EvmRpc -------------------------------
(***************************************************************************)
(* Reading a contract of an EVM chain (EVMOracleFeedFetcher._read_feed_    *)
(* value and ERC4626RateFetcher._read_vault_rate): the requests of one     *)
(* fetcher, one read per pair, go round the same list of RPC nodes. The    *)
(* reads run concurrently and share the position in the list and, in the   *)
(* feed fetcher, the nodes that failed less than a minute ago.             *)
(*                                                                         *)
(* Between two awaits a read has the event loop for itself: while one      *)
(* draws nodes, no other step is taken.                                    *)
(***************************************************************************)
EXTENDS Naturals, FiniteSets

CONSTANTS
  Reads,      \* the pairs the fetcher reads, a coroutine each
  NumRpcs     \* the length of _rpc_urls, without duplicates

ASSUME RpcAssumption == NumRpcs \in Nat \ {0}

Urls == 0..(NumRpcs - 1)

VARIABLES
  reader,     \* "feed" or "vault": which of the two fetchers this is
  rpc_index,  \* _rpc_index
  cooling,    \* the nodes in _rpc_failures whose cooldown has not expired
  todo,       \* the reads of this fetch that have not begun
  step,       \* of each read: "idle", "drawing", "asking"
  url,        \* the node it asks
  left,       \* how often it may still draw in this pass
  attempted,  \* what it has drawn in this pass
  made_request,
  retry_without_cooldown,
  asked,      \* history: the nodes this read has asked
  owed        \* history: those it has yet to ask, if it has the fetcher for itself

shared_vars == <<rpc_index, cooling>>
read_vars == <<step, url, left, attempted, made_request, retry_without_cooldown>>
evm_vars == <<reader, shared_vars, todo, read_vars, asked, owed>>

\* Variant: the position is not moved past a node that is asked.
StaysAt(u) == u
After(u) == (u + 1) % NumRpcs

\* The nodes as they come, from the position on.
Nearer(u, v) ==
  (u + NumRpcs - rpc_index) % NumRpcs < (v + NumRpcs - rpc_index) % NumRpcs

\* _next_rpc_url: the first node that is not cooling, or the next one when all
\* of them are or when cooldowns are ignored.
NextUrl(r) ==
  LET free == IF reader = "vault" \/ retry_without_cooldown[r] THEN Urls
              ELSE Urls \ cooling
  IN  IF free = {} THEN rpc_index
      ELSE CHOOSE u \in free : \A v \in free \ {u} : Nearer(u, v)

LoopIsFree == \A r \in Reads : step[r] # "drawing"

EvmInit ==
  /\ reader \in {"feed", "vault"}
  /\ rpc_index = 0 /\ cooling = {}
  /\ todo = {}
  /\ step = [r \in Reads |-> "idle"]
  /\ url = [r \in Reads |-> 0]
  /\ left = [r \in Reads |-> 0]
  /\ attempted = [r \in Reads |-> {}]
  /\ made_request = [r \in Reads |-> FALSE]
  /\ retry_without_cooldown = [r \in Reads |-> FALSE]
  /\ asked = [r \in Reads |-> {}]
  /\ owed = [r \in Reads |-> {}]

\* fetch: a read for each pair that has a feed; the last fetch has returned.
FetchStarts ==
  /\ todo = {} /\ \A r \in Reads : step[r] = "idle"
  /\ todo' \in SUBSET Reads \ {{}}
  /\ UNCHANGED <<reader, shared_vars, read_vars, asked, owed>>

ReadStarts(r) ==
  /\ LoopIsFree /\ r \in todo
  /\ todo' = todo \ {r}
  /\ step' = [step EXCEPT ![r] = "drawing"]
  /\ left' = [left EXCEPT ![r] = NumRpcs]
  /\ attempted' = [attempted EXCEPT ![r] = {}]
  /\ made_request' = [made_request EXCEPT ![r] = FALSE]
  /\ retry_without_cooldown' = [retry_without_cooldown EXCEPT ![r] = FALSE]
  /\ asked' = [asked EXCEPT ![r] = {}]
  /\ owed' = [q \in Reads |->
       IF q # r \/ \E o \in Reads \ {r} : step[o] # "idle" THEN {}
       ELSE IF reader = "feed" /\ cooling # Urls THEN Urls \ cooling ELSE Urls]
  /\ UNCHANGED <<reader, shared_vars, url>>

\* Variant: what has been asked in this pass may be asked again.
SkippedIfCooling(r, u) ==
  reader = "feed" /\ ~retry_without_cooldown[r] /\ u \in cooling
Skipped(r, u) ==
  /\ reader = "feed"
  /\ u \in attempted[r] \/ (~retry_without_cooldown[r] /\ u \in cooling)

\* One turn of the for loop, up to the request or the next turn.
Draws(r) ==
  /\ step[r] = "drawing" /\ left[r] > 0
  /\ LET u == NextUrl(r)
     IN  /\ rpc_index' = After(u)
         /\ left' = [left EXCEPT ![r] = @ - 1]
         /\ attempted' = [attempted EXCEPT ![r] = @ \cup {u}]
         /\ IF Skipped(r, u)
              THEN UNCHANGED <<step, url, asked, owed>>
              ELSE /\ step' = [step EXCEPT ![r] = "asking"]
                   /\ url' = [url EXCEPT ![r] = u]
                   /\ asked' = [asked EXCEPT ![r] = @ \cup {u}]
                   /\ owed' = [owed EXCEPT ![r] = @ \ {u}]
  /\ UNCHANGED <<reader, cooling, todo, made_request, retry_without_cooldown>>

Returns(r) ==
  /\ step' = [step EXCEPT ![r] = "idle"]
  /\ url' = [url EXCEPT ![r] = 0]
  /\ left' = [left EXCEPT ![r] = 0]
  /\ attempted' = [attempted EXCEPT ![r] = {}]
  /\ made_request' = [made_request EXCEPT ![r] = FALSE]
  /\ retry_without_cooldown' = [retry_without_cooldown EXCEPT ![r] = FALSE]
  /\ asked' = [asked EXCEPT ![r] = {}]
  /\ owed' = [owed EXCEPT ![r] = {}]

\* Variant: the second pass is left out.
NoSecondPass(r) == FALSE
\* After a pass in which every node was skipped, once more without cooldowns.
SecondPass(r) ==
  reader = "feed" /\ ~retry_without_cooldown[r] /\ ~made_request[r]

PassEnds(r) ==
  /\ step[r] = "drawing" /\ left[r] = 0
  /\ \/ /\ SecondPass(r)
        /\ retry_without_cooldown' = [retry_without_cooldown EXCEPT ![r] = TRUE]
        /\ left' = [left EXCEPT ![r] = NumRpcs]
        /\ attempted' = [attempted EXCEPT ![r] = {}]
        /\ UNCHANGED <<step, url, made_request, asked, owed>>
     \/ ~SecondPass(r) /\ Returns(r)
  /\ UNCHANGED <<reader, shared_vars, todo>>

\* A value: the failure of the node is forgotten.
Answers(r) ==
  /\ LoopIsFree /\ step[r] = "asking"
  /\ cooling' = cooling \ {url[r]}
  /\ Returns(r)
  /\ UNCHANGED <<reader, rpc_index, todo>>

\* A status, an exception, an empty or invalid result.
Fails(r) ==
  /\ LoopIsFree /\ step[r] = "asking"
  /\ made_request' = [made_request EXCEPT ![r] = TRUE]
  /\ cooling' = IF reader = "feed" THEN cooling \cup {url[r]} ELSE cooling
  /\ step' = [step EXCEPT ![r] = "drawing"]
  /\ UNCHANGED <<reader, rpc_index, todo, url, left, attempted, retry_without_cooldown,
                 asked, owed>>

\* The timeout of FetcherClient.fetch cancels the reads, and an answer whose error
\* is null raises: neither marks the node.
Cancelled(r) ==
  /\ LoopIsFree /\ step[r] = "asking"
  /\ Returns(r)
  /\ UNCHANGED <<reader, shared_vars, todo>>

\* RPC_FAILURE_COOLDOWN_SECONDS have passed.
Expires(u) ==
  /\ LoopIsFree /\ u \in cooling
  /\ cooling' = cooling \ {u}
  /\ UNCHANGED <<reader, rpc_index, todo, read_vars, asked, owed>>

Requested(r) == Answers(r) \/ Fails(r) \/ Cancelled(r)
ReadSteps(r) == ReadStarts(r) \/ Draws(r) \/ PassEnds(r) \/ Requested(r)

EvmNext == FetchStarts \/ (\E r \in Reads : ReadSteps(r)) \/ (\E u \in Urls : Expires(u))

EvmSpec == EvmInit /\ [][EvmNext]_evm_vars
-----------------------------------------------------------------------------
(* Properties *)

GivesUp(r) == step[r] = "drawing" /\ step'[r] = "idle"

\* A read gives up only after it has asked a node: when all are cooling down they
\* are tried all the same ("try once ignoring cooldowns").
NeverGivesUpUnasked == [][\A r \in Reads : GivesUp(r) => asked[r] # {}]_evm_vars

\* A read asks no node twice: the second pass is only taken when the first one
\* asked none (the sets attempted, and the condition after the loop).
AsksOnce ==
  [][\A r \in Reads :
       reader = "feed" /\ step[r] = "drawing" /\ step'[r] = "asking" =>
         url'[r] \notin asked[r]]_evm_vars

\* "All Ethereum RPCs failed" is true of a read that had the fetcher for itself:
\* it has asked every node that was not cooling when it began, and every node when
\* all were.
LonelyReadAsksAll == [][\A r \in Reads : GivesUp(r) => owed[r] = {}]_evm_vars
=============================================================================
