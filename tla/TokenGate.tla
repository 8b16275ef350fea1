------------------------------ MODULE TokenGate ------------------------------
(***************************************************************************)
(* The gate every request passes: decode_entra_token looks for the token's *)
(* signing key in a document of the identity provider that lru_cache(1)    *)
(* keeps, and fetches the document once more when the key is not in it;    *)
(* then come the claims, the application role, the application session and *)
(* the role of the endpoint.  The threads share the cache.  A fetch        *)
(* returns what is published when the provider answers, which may be long  *)
(* before the cache takes it; the provider adds keys while fetches run.    *)
(***************************************************************************)
EXTENDS FiniteSets

CONSTANTS Thread,
          Kid,          \* key ids that tokens name
          Role,         \* INTERNAL_ROLES
          Tokens,       \* bound: the tokens that come
          Routes,       \* bound: the routes they are for
          None

(* The claims that are compared with the settings: any one refuses.        *)
Claim == {"signature", "aud", "exp", "iss", "tid", "ver", "scp", "azp", "oid"}

Token == [kid : Kid, wrong : SUBSET Claim, roles : SUBSET Role]
(* What a route asks for, and whether the caller's session is active.      *)
Route == [roles : SUBSET Role, session : BOOLEAN, active : BOOLEAN]

ASSUME GateAssumption ==
  (\A K \in SUBSET Kid : K # None) /\ Tokens \subseteq Token /\ Routes \subseteq Route

VARIABLES published,    \* the keys of the provider's document
          cache,        \* get_entra_jwks' cached document, or None
          call,         \* the request each thread is serving
          settled       \* history variable: threads that began when their
                        \* token's key was published and no answer without
                        \* it was under way

gateVars == <<published, cache, call, settled>>

Phase == {"look", "ask", "answered", "missed"}
Answer == {"served", "invalid", "unknown_key", "no_metadata", "no_role",
           "no_session", "forbidden"}
Idle == [pc |-> "idle", token |-> None]

GateTypeOK ==
  /\ published \subseteq Kid
  /\ cache = None \/ cache \subseteq published
  /\ settled \subseteq Thread
  /\ \A t \in Thread :
       \/ call[t] = Idle
       \/ /\ call[t] \in [pc : Phase \cup Answer, again : BOOLEAN, token : Tokens,
                          route : Routes, doc : SUBSET published]
          /\ call[t].pc \notin Phase \cup {"unknown_key", "no_metadata"}
               => call[t].token.kid \in published

GateInit ==
  /\ published \in SUBSET Kid /\ cache = None /\ settled = {}
  /\ call = [t \in Thread |-> Idle]

Publish(k) ==
  /\ k \notin published /\ published' = published \cup {k}
  /\ UNCHANGED <<cache, call, settled>>

Serving(t) == call[t].pc \in Phase

(* An answer without key k that has not reached the cache yet.             *)
Lacking(t, k) == call[t].pc = "answered" /\ k \notin call[t].doc

Begin(t, token, route) ==
  /\ ~Serving(t)
  /\ call' = [call EXCEPT ![t] = [pc |-> "look", again |-> FALSE, token |-> token,
                                  route |-> route, doc |-> {}]]
  /\ settled' = IF token.kid \in published /\ \A u \in Thread \ {t} : ~Lacking(u, token.kid)
                  THEN settled \cup {t} ELSE settled \ {t}
  /\ UNCHANGED <<published, cache>>

(* Claims, roles of the application, session, roles of the route.          *)
Checked(token, route) ==
  IF token.wrong # {} THEN "invalid"
  ELSE IF token.roles = {} THEN "no_role"
  ELSE IF route.session /\ ~route.active THEN "no_session"
  ELSE IF token.roles \cap route.roles = {} THEN "forbidden"
  ELSE "served"

(* The key is sought in doc; only a first miss is not final.               *)
Search(t, doc) ==
  IF call[t].token.kid \in doc THEN Checked(call[t].token, call[t].route)
  ELSE IF call[t].again THEN "unknown_key" ELSE "missed"

(* get_entra_jwks(): the cached document, or a fetch.                      *)
Look(t) ==
  /\ call[t].pc = "look"
  /\ call' = [call EXCEPT ![t].pc = IF cache # None THEN Search(t, cache) ELSE "ask"]
  /\ UNCHANGED <<published, cache, settled>>

ProviderAnswers(t) ==
  /\ call[t].pc = "ask"
  /\ call' = [call EXCEPT ![t].pc = "answered", ![t].doc = published]
  /\ UNCHANGED <<published, cache, settled>>

(* lru_cache keeps a document that another thread entered meanwhile, and   *)
(* this thread goes on with its own.                                       *)
Store(t) ==
  /\ call[t].pc = "answered"
  /\ call' = [call EXCEPT ![t].pc = Search(t, call[t].doc), ![t].doc = {}]
  /\ cache' = IF cache = None THEN call[t].doc ELSE cache
  /\ UNCHANGED <<published, settled>>

(* Mutant: the cache is not cleared before the key is looked for again.    *)
ClearNothing(t) ==
  /\ call[t].pc = "missed"
  /\ call' = [call EXCEPT ![t].pc = "look", ![t].again = TRUE]
  /\ UNCHANGED <<published, cache, settled>>

(* Mutant: the document is fetched until it has the key.                   *)
ClearForEver(t) ==
  /\ call[t].pc = "missed"
  /\ call' = [call EXCEPT ![t].pc = "look"]
  /\ cache' = None
  /\ UNCHANGED <<published, settled>>

(* cache_clear() after the first miss; it may drop a newer document.       *)
Clear(t) ==
  /\ call[t].pc = "missed"
  /\ call' = [call EXCEPT ![t].pc = "look", ![t].again = TRUE]
  /\ cache' = None
  /\ UNCHANGED <<published, settled>>

(* No answer, or not one that can be read.                                 *)
FetchFails(t) ==
  /\ call[t].pc \in {"ask", "answered"}
  /\ call' = [call EXCEPT ![t].pc = "no_metadata", ![t].doc = {}]
  /\ UNCHANGED <<published, cache, settled>>

Proceed(t) == Look(t) \/ ProviderAnswers(t) \/ Store(t) \/ Clear(t)

GateNext ==
  \/ \E k \in Kid : Publish(k)
  \/ \E t \in Thread :
       \/ \E token \in Tokens, route \in Routes : Begin(t, token, route)
       \/ Proceed(t) \/ FetchFails(t)

GateSpec == GateInit /\ [][GateNext]_gateVars
(* A thread runs on; urlopen has a timeout, so a fetch ends.               *)
FairGateSpec == GateSpec /\ \A t \in Thread : WF_gateVars(Proceed(t))

-----------------------------------------------------------------------------
(* A token whose key is published is never refused for its key once no     *)
(* answer from before the publication is under way, however the cache is   *)
(* cleared and refilled meanwhile.                                         *)
SettledKeyFound == \A t \in settled : call[t].pc # "unknown_key"

(* Every request is answered, after two look-ups at most.                  *)
CallsAnswered == \A t \in Thread : Serving(t) ~> ~Serving(t)
=============================================================================
