------------------------------- MODULE Caching --------------------------------
(***************************************************************************)
(* The caches: CacheService with its exact and prefix tiers                *)
(* (application/services/cache, domain/caching), and the embedding cache   *)
(* (infrastructure/embeddings).  `object` says which of the two a          *)
(* behaviour is about; they share nothing.  The semantic tier is a shell   *)
(* that always misses, so it does not appear.                              *)
(*                                                                         *)
(* A request is [text, keyed, ignored]: its input text, the generation     *)
(* parameters its cache key is made of, with whether the text is a prompt  *)
(* or messages, and those the key leaves out.  A response is a member of   *)
(* Answers.  Ages are counted in ticks up to MaxAge, which as a time to    *)
(* live stands for none.                                                   *)
(* Two accesses never read the same instant, so last_accessed is kept as   *)
(* the order `recency`; a dictionary is a function and the order its keys  *)
(* were inserted in.  No method suspends itself: each is one step.         *)
(***************************************************************************)
EXTENDS Naturals, Sequences, SequencesExt

CONSTANTS
  Content,          \* text -> its symbols, a sequence
  Requests,
  Answers,
  MaxAge,
  MaxEntries, MaxPrefixes, MaxEmbeddings,   \* max_entries, max_entries, max_size
  MaxUses           \* bound: uses counted for a prefix

ASSUME CachingAssumption ==
  /\ {MaxAge, MaxEntries, MaxPrefixes, MaxEmbeddings, MaxUses} \subseteq Nat
  /\ \A request \in Requests : request.text \in DOMAIN Content

VARIABLES
  object,       \* the cache a behaviour is about
  exact,        \* ExactCache.cache: key -> entry
  recency,      \* its keys, by last_accessed
  prefixes,     \* PrefixCache.prefix_cache: text -> usage_count
  insertion,    \* its texts, as they were inserted
  embeddings,   \* EmbeddingCache.cache: its texts, as they were inserted
  reply,        \* the hit a get has just returned, << request, answer >>, or << >>
  written,      \* history: key -> the last [request, entry] stored and not removed
  since         \* history: key -> the other keys used since it was

cachingVars == << object, exact, recency, prefixes, insertion, embeddings, reply, written, since >>

Texts == DOMAIN Content

\* InferenceRequest.cache_key: a hash of the text, the messages, temperature,
\* max_tokens, top_p and the preferred model; not of top_k, the penalties and
\* the stop sequences.
Key(request) == [text |-> request.text, keyed |-> request.keyed]

Keys == {Key(request) : request \in Requests}

Entries == [answer : Answers, age : 0 .. MaxAge, ttl : 0 .. MaxAge]

StartsWith(text, prefix) == IsPrefix(Content[prefix], Content[text])

Occurs(pattern, text) ==
  \E i \in DOMAIN Content[text] :
    IsPrefix(Content[pattern], SubSeq(Content[text], i, Len(Content[text])))

Without(map, gone) == [key \in DOMAIN map \ gone |-> map[key]]

With(map, key, value) ==
  [other \in DOMAIN map \cup {key} |-> IF other = key THEN value ELSE map[other]]

-----------------------------------------------------------------------------
(* Orders of keys, or of prefixes: key -> the keys before it *)

AsLast(order, key) ==
  [other \in DOMAIN order \cup {key} |->
     IF other = key THEN DOMAIN order \ {key} ELSE order[other] \ {key}]

Forget(order, gone) == [key \in DOMAIN order \ gone |-> order[key] \ gone]

First(order, keys) == CHOOSE key \in keys : order[key] \cap keys = {}

-----------------------------------------------------------------------------

\* The history after `key` is used: it was used last, and every other one before it.
Use(key) ==
  [other \in DOMAIN since \cup {key} |-> IF other = key THEN {} ELSE since[other] \cup {key}]

CachingInit ==
  /\ object \in {"service", "embeddings"}
  /\ exact = << >> /\ recency = << >>
  /\ prefixes = << >> /\ insertion = << >> /\ embeddings = << >>
  /\ reply = << >>
  /\ written = << >> /\ since = << >>

-----------------------------------------------------------------------------
(* The exact and the prefix tier *)

\* Mutant: the time to live is not looked at.
NeverExpired(entry) == FALSE

IsExpired(entry) == entry.age > entry.ttl

\* Mutant: an entry keeps the place it had when it was stored.
InOrderOfCreation(key) ==
  IF key \in DOMAIN recency THEN recency ELSE AsLast(recency, key)

\* touch: the key becomes the one accessed last.
Touched(key) == AsLast(recency, key)

\* get_prefix: the first prefix stored of those that match is used once more.
UsePrefix(text) ==
  LET matching == {prefix \in DOMAIN prefixes : StartsWith(text, prefix)}
      first == First(insertion, matching)
  IN  \/ matching = {} /\ UNCHANGED prefixes
      \/ /\ matching # {} /\ prefixes[first] < MaxUses
         /\ prefixes' = [prefixes EXCEPT ![first] = @ + 1]

\* CacheService.get, answered by the exact tier.
GetHit(request) ==
  LET key == Key(request)
  IN  /\ key \in DOMAIN exact /\ ~IsExpired(exact[key])
      /\ recency' = Touched(key)
      /\ reply' = << request, exact[key].answer >>
      /\ since' = Use(key)
      /\ UNCHANGED << exact, prefixes, insertion, written >>

\* CacheService.get, not answered; an expired entry stays where it is.
GetMiss(request) ==
  /\ Key(request) \in DOMAIN exact => IsExpired(exact[Key(request)])
  /\ UsePrefix(request.text)
  /\ reply' = << >>
  /\ UNCHANGED << exact, recency, insertion, written, since >>

\* Mutant: room is made for one entry more than fits.
TooMany(entries) == Cardinality(DOMAIN entries) > MaxEntries + 1

IsOverfull(entries) == Cardinality(DOMAIN entries) > MaxEntries

\* CacheService.set, with _evict_lru once the entry is in.
Set(request) ==
  \E answer \in Answers, ttl \in 0 .. MaxAge :
    LET key == Key(request)
        entry == [answer |-> answer, age |-> 0, ttl |-> ttl]
        larger == With(exact, key, entry)
        order == Touched(key)
        evicted == IF IsOverfull(larger) THEN {First(order, DOMAIN order)} ELSE {}
    IN  /\ exact' = Without(larger, evicted)
        /\ recency' = Forget(order, evicted)
        /\ written' = Without(With(written, key, [request |-> request, entry |-> entry]), evicted)
        /\ since' = Use(key)
        /\ reply' = << >>
        /\ UNCHANGED << prefixes, insertion >>

\* CacheService.invalidate of the entries whose prompt or response contains a
\* pattern, or of all; the prefix tier is not told.
Invalidate ==
  \E gone \in {{key \in DOMAIN exact : Occurs(pattern, key.text)} : pattern \in Texts}
               \cup {{key \in DOMAIN exact : exact[key].answer = answer} : answer \in Answers}
               \cup {DOMAIN exact} :
    /\ exact' = Without(exact, gone)
    /\ recency' = Forget(recency, gone)
    /\ written' = Without(written, gone)
    /\ since' = Without(since, gone)
    /\ reply' = << >>
    /\ UNCHANGED << prefixes, insertion >>

\* min() over the dictionary: the first text of those used least.
FirstLeastUsed(uses, order) ==
  First(order, {text \in DOMAIN uses : \A other \in DOMAIN uses : uses[text] <= uses[other]})

\* The place of a text once it is stored: last, or where it was before.
Stored(order, text) == IF text \in DOMAIN order THEN order ELSE AsLast(order, text)

\* Mutant: room is made before the prefix is stored.
EvictThenStore(text) ==
  LET evicted == IF Cardinality(DOMAIN prefixes) < MaxPrefixes \/ DOMAIN prefixes = {} THEN {}
                 ELSE {FirstLeastUsed(prefixes, insertion)}
  IN  /\ prefixes' = With(Without(prefixes, evicted), text, 0)
      /\ insertion' = Stored(Forget(insertion, evicted), text)

\* set_prefix, then _evict_lfu.
StorePrefix(text) ==
  LET larger == With(prefixes, text, 0)
      order == Stored(insertion, text)
      evicted == IF Cardinality(DOMAIN larger) > MaxPrefixes THEN {FirstLeastUsed(larger, order)}
                 ELSE {}
  IN  /\ prefixes' = Without(larger, evicted)
      /\ insertion' = Forget(order, evicted)

SetPrefix(text) ==
  /\ StorePrefix(text)
  /\ reply' = << >>
  /\ UNCHANGED << exact, recency, written, since >>

\* PrefixCache.invalidate of the prefixes that contain a pattern, or of all.
InvalidatePrefixes ==
  \E texts \in {{prefix \in DOMAIN prefixes : Occurs(pattern, prefix)} : pattern \in Texts}
                \cup {DOMAIN prefixes} :
    /\ prefixes' = Without(prefixes, texts)
    /\ insertion' = Forget(insertion, texts)
    /\ reply' = << >>
    /\ UNCHANGED << exact, recency, written, since >>

\* Time passes.
Tick ==
  LET Older(entry) == [entry EXCEPT !.age = Min({@ + 1, MaxAge})]
  IN  /\ exact' = [key \in DOMAIN exact |-> Older(exact[key])]
      /\ written' = [key \in DOMAIN written |-> [written[key] EXCEPT !.entry = Older(@)]]
      /\ reply' = << >>
      /\ UNCHANGED << recency, prefixes, insertion, since >>

ServiceStep ==
  /\ object = "service"
  /\ \/ \E request \in Requests : GetHit(request) \/ GetMiss(request) \/ Set(request)
     \/ \E text \in Texts : SetPrefix(text)
     \/ Invalidate
     \/ InvalidatePrefixes
     \/ Tick
  /\ UNCHANGED << object, embeddings >>

-----------------------------------------------------------------------------
(* The embedding cache *)

\* EmbeddingCache.set: a full cache loses its oldest text, even when the text
\* to be stored is in it.
SetEmbedding(text) ==
  LET fits == IF Len(embeddings) >= MaxEmbeddings /\ embeddings # << >>
              THEN Tail(embeddings) ELSE embeddings
  IN  embeddings' = IF text \in ToSet(fits) THEN fits ELSE Append(fits, text)

EmbeddingStep ==
  /\ object = "embeddings"
  /\ (\E text \in Texts : SetEmbedding(text)) \/ embeddings' = << >>
  /\ UNCHANGED << object, exact, recency, prefixes, insertion, reply, written, since >>

-----------------------------------------------------------------------------
CachingNext == ServiceStep \/ EmbeddingStep

-----------------------------------------------------------------------------
(* Properties *)

\* `order` is a strict and total order of exactly these keys.
Orders(order, keys) ==
  /\ DOMAIN order = keys
  /\ \A key \in keys :
       /\ order[key] \subseteq keys \ {key}
       /\ \A other \in order[key] : order[other] \subseteq order[key]
       /\ \A other \in keys \ order[key] : other = key \/ key \in order[other]

\* Types; every cache stays within its capacity, except that an embedding
\* cache of capacity zero holds one; the orders are orders of what is cached.
CachingTypeOK ==
  /\ object \in {"service", "embeddings"}
  /\ DOMAIN exact \subseteq Keys /\ Range(exact) \subseteq Entries
  /\ Cardinality(DOMAIN exact) <= MaxEntries
  /\ Orders(recency, DOMAIN exact)
  /\ DOMAIN prefixes \subseteq Texts /\ Range(prefixes) \subseteq 0 .. MaxUses
  /\ Cardinality(DOMAIN prefixes) <= MaxPrefixes
  /\ Orders(insertion, DOMAIN prefixes)
  /\ ToSet(embeddings) \subseteq Texts /\ IsInjective(embeddings)
  /\ Len(embeddings) <= Max({1, MaxEmbeddings})

\* A hit returns the response stored last under the key of the request, for
\* the same text and the same parameters of the key: not one that was replaced,
\* invalidated, evicted, or stored longer ago than its time to live.
HitsAreCurrent ==
  reply # << >> =>
    LET key == Key(reply[1])
    IN  /\ key \in DOMAIN written
        /\ written[key].request.text = reply[1].text
        /\ written[key].request.keyed = reply[1].keyed
        /\ written[key].entry.answer = reply[2]
        /\ written[key].entry.age <= written[key].entry.ttl

\* A hit returns a response that was stored for this request and no other one:
\* ModelParameters calls itself "Generation parameters that affect model output
\* and cache keys".
HitsAnswerTheRequest ==
  reply # << >> => written[Key(reply[1])].request = reply[1]

\* What least recently used eviction is for: a response stays until as many
\* other keys were used since as the cache has room for.
RecentlyUsedIsKept ==
  \A key \in DOMAIN since : Cardinality(since[key]) < MaxEntries => key \in DOMAIN exact

\* Eviction takes no prefix that was used since it was stored, because the
\* newcomer, itself unused, is in the comparison; a cache full of used
\* prefixes therefore admits no other.
UsedPrefixesStay ==
  [][\A text \in DOMAIN prefixes :
       prefixes[text] > 0 /\ Cardinality(DOMAIN prefixes') = MaxPrefixes =>
         text \in DOMAIN prefixes']_cachingVars
=============================================================================
