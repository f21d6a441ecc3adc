------------------------------ MODULE Knowledge ------------------------------
(***************************************************************************)
(* The memories table: private memories with the consent they need         *)
(* (src/src/tools/MemoryTool.ts), the documents of a room                  *)
(* (src/src/utils/roomKnowledge.ts), the embedding service they use and    *)
(* the script that embeds again (src/scripts/backfillEmbeddings.ts).       *)
(*                                                                         *)
(* A text is a pair <<what it is about, its number>>; a vector is a record *)
(* of the text it was made from and the model that made it.                *)
(***************************************************************************)
EXTENDS Stage, SequencesExt

CONSTANTS
  Calls,      \* calls of the tools; two calls overlap in turns of two rooms
  Members, Libraries, Topics,
  Models,     \* embedding models that may be configured
  Target, Overlap,  \* characters of a chunk
  RequestMax, \* texts of one request
  CacheMax, CacheTtl,
  Recent      \* rows that are candidates whatever they are about

VARIABLES
  memories,   \* rows, oldest first: [id, owner, text, vec, model]
  storedConsent, localConsent,  \* app_kv; consentFallback
  config,     \* the configured model, None without one, "down": not running
  cache,      \* the service's cache, least recently used first
  flights,    \* its requests that are not answered
  call,       \* [Calls -> record, see Off]
  backfill,   \* [at, model, pending]
  withdrawn,  \* (history) who revoked, and has granted nothing since
  revoking    \* (history) revocations during which nothing was granted

knowledgeVars == <<memories, storedConsent, localConsent, config, cache, flights, call, backfill, withdrawn, revoking>>
consentVars == <<storedConsent, localConsent, withdrawn, revoking>>
serviceVars == <<cache, flights>>

(* have: the vectors of the texts, None if the service failed; then: where *)
(* the call goes on when it has its vectors.                               *)
Off == [at |-> "off", kind |-> "none", doc |-> 0, who |-> None, text |-> <<>>, chunks |-> <<>>, next |-> 1, pend |-> <<>>, have |-> None, then |-> "off",
        single |-> FALSE, rows |-> <<>>, saw |-> FALSE, hits |-> {}]

KnowledgeInit ==
  /\ memories = <<>> /\ storedConsent = {} /\ localConsent = {} /\ config = scene.model /\ cache = <<>> /\ flights = {}
  /\ call = [k \in Calls |-> Off] /\ backfill = [at |-> "off", model |-> None, pending |-> {}] /\ withdrawn = {} /\ revoking = {}

RowsOfOwner(o) == SelectSeq(memories, LAMBDA r : r.owner = o)
Space(m) == <<"space", m>>   \* createEmbeddingSpaceId
Plain(m) == <<"plain", m>>   \* what the script records: the model's name
Running == config # "down"
Embeds == config \in Models
Begins(k, kind) == Running /\ call[k].at = "off" /\ Spend(kind)
-----------------------------------------------------------------------------
(* The embedding service. *)
VectorOf(text, m) == [of |-> text, by |-> m]

Fresh(text) == \E i \in 1 .. Len(cache) : cache[i].text = text /\ cache[i].until >= now
Cached(text) == cache[CHOOSE i \in 1 .. Len(cache) : cache[i].text = text].vec

(* What is found moves to the end, what has expired is dropped. *)
Touch(texts) ==
  SelectSeq(cache, LAMBDA e : ~Contains(texts, e.text)) \o
    LET found == SelectSeq(texts, Fresh)
    IN [i \in 1 .. Len(found) |-> CHOOSE e \in ToSet(cache) : e.text = found[i]]

(* At the limit the oldest goes, also for a text that is in the cache.     *)
Add(entries, text, vec) ==
  LET room == IF Len(entries) >= CacheMax THEN Tail(entries) ELSE entries
      entry == [text |-> text, vec |-> vec, until |-> now + CacheTtl]
  IN IF \E i \in 1 .. Len(room) : room[i].text = text
     THEN [i \in 1 .. Len(room) |-> IF room[i].text = text THEN entry ELSE room[i]]
     ELSE Append(room, entry)

(* A call asks for the vectors of texts: at once from the cache, the rest  *)
(* in requests.                                                            *)
Embed(k, texts, c) ==
  LET pend == SelectSeq(texts, LAMBDA t : ~Fresh(t))
  IN /\ cache' = Touch(texts)
     /\ call' = [call EXCEPT ![k] = [c EXCEPT !.pend = pend, !.have = [t \in {u \in ToSet(texts) : Fresh(u)} |-> Cached(t)],
                                              !.at = IF pend = <<>> THEN c.then ELSE "ask"]]
     /\ UNCHANGED flights

RequestOf(k) == SubSeq(call[k].pend, 1, IF Len(call[k].pend) > RequestMax THEN RequestMax ELSE Len(call[k].pend))

(* A request for the same texts that is not answered yet is shared.        *)
Request(k) ==
  /\ call[k].at = "ask" /\ flights' = (flights \cup {RequestOf(k)})
  /\ call' = [call EXCEPT ![k].at = "wait"]
  /\ UNCHANGED <<stage, memories, consentVars, config, cache, backfill>>

WaitersOf(f) == {k \in Calls : call[k].at = "wait" /\ RequestOf(k) = f}

(* Mutant of InOrder: the vectors are taken in the order they came.        *)
AsCame(items) == [i \in 1 .. Len(items) |-> items[i].vec]

InOrder(items) == [i \in 1 .. Len(items) |-> (CHOOSE x \in ToSet(items) : x.index = i).vec]

(* The provider answers with the items in an order of its own.             *)
Answers(f) ==
  \E order \in Permutations(1 .. Len(f)) :
    LET vecs == InOrder([i \in 1 .. Len(f) |-> [index |-> order[i], vec |-> VectorOf(f[order[i]], config)]])
        got == [t \in ToSet(f) |-> vecs[CHOOSE i \in 1 .. Len(f) : f[i] = t]]
        rest(k) == SubSeq(call[k].pend, Len(f) + 1, Len(call[k].pend))
    IN /\ cache' = FoldLeft(LAMBDA es, t : Add(es, t, got[t]), cache, f)
       /\ call' = [k \in Calls |->
            IF k \in WaitersOf(f)
            THEN [call[k] EXCEPT !.pend = rest(k), !.have = got @@ @, !.at = IF rest(k) = <<>> THEN call[k].then ELSE "ask"]
            ELSE call[k]]
       /\ flights' = flights \ {f}
       /\ UNCHANGED <<stage, memories, consentVars, config, backfill>>

(* It fails, takes too long, or answers what is not valid. *)
Refuses(f) ==
  /\ Spend("refuse") /\ flights' = flights \ {f}
  /\ call' = [k \in Calls |-> IF k \in WaitersOf(f) THEN [call[k] EXCEPT !.pend = <<>>, !.have = None, !.at = call[k].then] ELSE call[k]]
  /\ UNCHANGED <<memories, consentVars, config, cache, backfill>>
-----------------------------------------------------------------------------
(* Consent. *)
Granting(u) == \E k \in Calls : call[k].who = u /\ call[k].at \in {"read", "write"}

StartGrant(k, u, c) ==
  /\ localConsent' = (localConsent \cup {u}) /\ withdrawn' = withdrawn \ {u}
  /\ revoking' = {j \in revoking : call[j].who # u}
  /\ call' = [call EXCEPT ![k] = [c EXCEPT !.who = u, !.at = "read"]]
  /\ UNCHANGED <<storedConsent, memories, config, serviceVars, backfill>>

Grant(k, u) == Begins(k, "grant") /\ StartGrant(k, u, [Off EXCEPT !.kind = "grant"])

GrantRead(k) ==
  /\ call[k].at = "read" /\ call' = [call EXCEPT ![k].at = "write", ![k].saw = call[k].who \in storedConsent]
  /\ UNCHANGED <<stage, memories, consentVars, config, serviceVars, backfill>>

(* The row is updated or inserted, or the database is busy: then the       *)
(* consent is that of this process only.                                   *)
GrantWrite(k) ==
  /\ call[k].at = "write" /\ call' = [call EXCEPT ![k] = IF @.kind = "store" THEN [@ EXCEPT !.at = "usage"] ELSE Off]
  /\ \/ /\ storedConsent' = IF call[k].saw THEN storedConsent ELSE storedConsent \cup {call[k].who}
        /\ UNCHANGED stage
     \/ Spend("busy") /\ UNCHANGED storedConsent
  /\ UNCHANGED <<localConsent, withdrawn, revoking, memories, config, serviceVars, backfill>>

(* Mutant of Revoke: what this process remembers is left. *)
RevokeStoredOnly(k, u) ==
  /\ Begins(k, "revoke") /\ call' = [call EXCEPT ![k] = [Off EXCEPT !.kind = "revoke", !.who = u, !.at = "delete"]]
  /\ revoking' = IF Granting(u) THEN revoking ELSE revoking \cup {k}
  /\ UNCHANGED <<localConsent, storedConsent, withdrawn, memories, config, serviceVars, backfill>>

Revoke(k, u) ==
  /\ Begins(k, "revoke") /\ localConsent' = localConsent \ {u}
  /\ call' = [call EXCEPT ![k] = [Off EXCEPT !.kind = "revoke", !.who = u, !.at = "delete"]]
  /\ revoking' = IF Granting(u) THEN revoking ELSE revoking \cup {k}
  /\ UNCHANGED <<storedConsent, withdrawn, memories, config, serviceVars, backfill>>

(* A revocation that cannot be written is reported as done all the same.   *)
RevokeDelete(k) ==
  /\ call[k].at = "delete" /\ call' = [call EXCEPT ![k] = Off] /\ revoking' = revoking \ {k}
  /\ \/ /\ storedConsent' = storedConsent \ {call[k].who} /\ UNCHANGED stage
        /\ withdrawn' = IF k \in revoking THEN withdrawn \cup {call[k].who} ELSE withdrawn
     \/ Spend("busy") /\ UNCHANGED <<storedConsent, withdrawn>>
  /\ UNCHANGED <<localConsent, memories, config, serviceVars, backfill>>
-----------------------------------------------------------------------------
(* A memory is stored: by who consents now, or has before. *)
StoreMemory(k, u, text, consents) ==
  LET c == [Off EXCEPT !.kind = "store", !.doc = Spent("store"), !.who = u, !.chunks = <<text>>]
  IN /\ Begins(k, "store")
     /\ IF consents THEN StartGrant(k, u, c)
        ELSE /\ call' = [call EXCEPT ![k] = [c EXCEPT !.at = IF u \in localConsent THEN "usage" ELSE "check"]]
             /\ UNCHANGED <<memories, consentVars, config, serviceVars, backfill>>

CheckConsent(k) ==
  /\ call[k].at = "check"
  /\ call' = [call EXCEPT ![k] = IF @.who \in storedConsent THEN [@ EXCEPT !.at = "usage"] ELSE Off]
  /\ UNCHANGED <<stage, memories, consentVars, config, serviceVars, backfill>>

Usage(k) ==
  /\ call[k].at = "usage" /\ UNCHANGED <<stage, memories, consentVars, config, backfill>>
  /\ IF Len(RowsOfOwner(call[k].who)) >= scene.quota THEN call' = [call EXCEPT ![k] = Off] /\ UNCHANGED serviceVars
     ELSE IF Embeds THEN Embed(k, call[k].chunks, [call[k] EXCEPT !.then = "insert", !.single = TRUE])
     ELSE call' = [call EXCEPT ![k].at = "insert"] /\ UNCHANGED serviceVars

(* A document is a sequence of paragraphs, each a sequence of characters.  *)
Gap == <<<<0, 1>>, <<0, 2>>>>

(* A paragraph that is too long for a chunk is cut into overlapping ones.  *)
Pieces(paragraph) ==
  LET last == CHOOSE n \in 0 .. Len(paragraph) :
                /\ n * (Target - Overlap) + Target >= Len(paragraph)
                /\ \A m \in 0 .. n - 1 : m * (Target - Overlap) + Target < Len(paragraph)
      from(i) == (i - 1) * (Target - Overlap) + 1
  IN [i \in 1 .. last + 1 |-> SubSeq(paragraph, from(i), IF i = last + 1 THEN Len(paragraph) ELSE from(i) + Target - 1)]

Flushed(acc) == IF acc.current = <<>> THEN acc.chunks ELSE Append(acc.chunks, acc.current)

(* Mutant of AddParagraph: what was collected before a long paragraph is   *)
(* left out.                                                               *)
AddParagraphOnly(acc, paragraph) ==
  LET joined == IF acc.current = <<>> THEN paragraph ELSE acc.current \o Gap \o paragraph
  IN IF Len(paragraph) > Target THEN [chunks |-> acc.chunks \o Pieces(paragraph), current |-> <<>>]
     ELSE IF Len(joined) > Target THEN [chunks |-> Flushed(acc), current |-> paragraph]
     ELSE [acc EXCEPT !.current = joined]

(* Paragraphs are collected while they fit.  The tail that a flush carries *)
(* over is replaced by the paragraph that follows.                         *)
AddParagraph(acc, paragraph) ==
  LET joined == IF acc.current = <<>> THEN paragraph ELSE acc.current \o Gap \o paragraph
  IN IF Len(paragraph) > Target THEN [chunks |-> Flushed(acc) \o Pieces(paragraph), current |-> <<>>]
     ELSE IF Len(joined) > Target THEN [chunks |-> Flushed(acc), current |-> paragraph]
     ELSE [acc EXCEPT !.current = joined]

ChunkText(paragraphs) == Flushed(FoldLeft(AddParagraph, [chunks |-> <<>>, current |-> <<>>], paragraphs))

(* What a file has to read: a document without text, and an image, are     *)
(* read by a vision model, if there is one.                                *)
Readable(file, ocr) ==
  \/ file \in {"text", "pdf"}
  \/ file \in {"scan", "image"} /\ ocr = "reads"

(* A document is indexed: its chunks are asked for together, and stored    *)
(* one by one.  The room is looked at before.                              *)
Index(k, r, topic) ==
  /\ Begins(k, "index") /\ UNCHANGED <<memories, consentVars, config, backfill>>
  /\ \E file \in {"text", "pdf", "scan", "image", "other"}, ocr \in {"off", "fails", "reads"}, paragraphs \in scene.texts :
       LET chunks == ChunkText(paragraphs)
           c == [Off EXCEPT !.kind = "index", !.doc = Spent("index"), !.who = r, !.text = paragraphs, !.then = "insert",
                            !.chunks = [i \in 1 .. Len(chunks) |-> <<topic, i, chunks[i]>>]]
       IN /\ Readable(file, ocr) /\ Len(RowsOfOwner(r)) + Len(chunks) <= scene.quota
          /\ IF Embeds THEN Embed(k, c.chunks, c) ELSE call' = [call EXCEPT ![k] = [c EXCEPT !.at = "insert"]] /\ UNCHANGED serviceVars

Id(c) == <<c.kind, c.doc, c.next>>

(* A row of memories, not embedded yet. *)
Unembedded(c, text) == [id |-> Id(c), owner |-> c.who, text |-> text, vec |-> None, model |-> None]

Comparable(row, m) == row.vec # None /\ row.model = Space(m)

(* Rows that say the same as the text, as far as they can be compared.     *)
Duplicates(k) ==
  {r \in ToSet(RowsOfOwner(call[k].who)) : call[k].have # None /\ Comparable(r, config) /\ r.vec = call[k].have[call[k].chunks[1]]}

(* A row is inserted without its vector, which is written next: from the   *)
(* batch, or else asked for now.                                           *)
Insert(k) ==
  LET c == call[k]
      text == c.chunks[c.next]
      ready == ~c.single /\ c.have # None
  IN /\ c.at = "insert" /\ UNCHANGED <<stage, consentVars, config, backfill>>
     /\ IF c.kind = "store" /\ Duplicates(k) # {} THEN call' = [call EXCEPT ![k] = Off] /\ UNCHANGED <<memories, serviceVars>>
        ELSE /\ memories' = Append(memories, Unembedded(c, text))
             /\ IF ready \/ ~Embeds THEN call' = [call EXCEPT ![k].at = "vector"] /\ UNCHANGED serviceVars
                ELSE Embed(k, <<text>>, [c EXCEPT !.then = "vector", !.single = TRUE])

(* The row may have been removed meanwhile: then the update finds none.    *)
WriteVector(k) ==
  LET c == call[k]
      text == c.chunks[c.next]
  IN /\ c.at = "vector" /\ UNCHANGED <<stage, consentVars, config, serviceVars, backfill>>
     /\ memories' = IF c.have = None THEN memories
                    ELSE [i \in 1 .. Len(memories) |->
                           IF memories[i].id = Id(c) THEN [memories[i] EXCEPT !.vec = c.have[text], !.model = Space(config)] ELSE memories[i]]
     /\ call' = [call EXCEPT ![k] = IF c.next = Len(c.chunks) THEN Off ELSE [@ EXCEPT !.next = @ + 1, !.at = "insert"]]

(* Someone forgets a memory of theirs, a document or all of a room is      *)
(* removed.                                                                *)
Removes(keeps(_)) ==
  /\ Running /\ Spend("remove") /\ memories' = SelectSeq(memories, keeps)
  /\ UNCHANGED <<consentVars, config, serviceVars, call, backfill>>

Forget(row) == row.owner \in Members /\ Removes(LAMBDA r : r # row)
RemoveDocument(row) == row.owner \in Libraries /\ Removes(LAMBDA r : ~(r.owner = row.owner /\ r.id[2] = row.id[2]))
RemoveAll(r) == Removes(LAMBDA row : row.owner # r)
-----------------------------------------------------------------------------
(* A room is searched, or someone's memories are ranked for a turn.  What  *)
(* is looked through is read before the query has its vector.              *)
Candidates(r, topic) ==
  SelectSeq(RowsOfOwner(r), LAMBDA x : x.text[1] = topic \/ Contains(Newest(RowsOfOwner(r), Recent), x))

LookThrough(k, o, topic, rows) ==
  LET c == [Off EXCEPT !.kind = "search", !.who = o, !.chunks = <<<<topic, 0>>>>, !.rows = rows, !.then = "answer"]
  IN /\ Begins(k, "search") /\ rows # <<>>
     /\ IF Embeds THEN Embed(k, c.chunks, c) ELSE call' = [call EXCEPT ![k] = [c EXCEPT !.at = "answer"]] /\ UNCHANGED serviceVars
     /\ UNCHANGED <<memories, consentVars, config, backfill>>

Search(k, r, topic) == LookThrough(k, r, topic, Candidates(r, topic))
Rank(k, u, topic) == LookThrough(k, u, topic, Newest(RowsOfOwner(u), Recent))

Unranked(rows) == {[vec |-> None, query |-> None] : r \in rows}
Scored(c, rows) == {[vec |-> r.vec, query |-> c.have[c.chunks[1]]] : r \in {x \in rows : Comparable(x, config)}}

(* With a vector only chunks of its space are found; without one, those    *)
(* with a word of the query.                                               *)
Retrieved(c) ==
  IF c.have # None THEN Scored(c, ToSet(c.rows)) ELSE Unranked({r \in ToSet(c.rows) : r.text[1] = c.chunks[1][1]})

(* Memories that cannot be compared follow those that can, unless they are *)
(* of another model; the newest are taken if none can.                     *)
Ranked(c) ==
  LET scored == IF c.have = None THEN {} ELSE Scored(c, ToSet(c.rows))
  IN IF scored = {} THEN Unranked(ToSet(c.rows)) ELSE scored \cup Unranked({r \in ToSet(c.rows) : r.vec = None})

Found(k) ==
  /\ call[k].at = "answer" /\ UNCHANGED <<stage, memories, consentVars, config, serviceVars, backfill>>
  /\ call' = [call EXCEPT ![k] = [Off EXCEPT !.hits = IF call[k].who \in Libraries THEN Retrieved(call[k]) ELSE Ranked(call[k])]]
-----------------------------------------------------------------------------
(* The process ends, and starts again, perhaps with another model.         *)
Halt ==
  /\ Running /\ Spend("halt") /\ config' = "down" /\ call' = [k \in Calls |-> Off] /\ flights' = {} /\ cache' = <<>>
  /\ localConsent' = {} /\ revoking' = {} /\ UNCHANGED <<memories, storedConsent, withdrawn, backfill>>

Boot ==
  /\ ~Running /\ config' \in Models \cup {None}
  /\ UNCHANGED <<stage, memories, consentVars, serviceVars, call, backfill>>

(* The script starts while the program does not run; the program may start *)
(* before it ends.                                                         *)
BackfillStart(m) ==
  /\ ~Running /\ backfill.at = "off" /\ Spend("backfill") /\ backfill' = [at |-> "read", model |-> m, pending |-> {}]
  /\ UNCHANGED <<memories, consentVars, config, serviceVars, call>>

BackfillRead ==
  LET todo == SelectSeq(memories, LAMBDA r : r.vec = None \/ r.model # Plain(backfill.model))
      first == SubSeq(todo, 1, IF Len(todo) > RequestMax THEN RequestMax ELSE Len(todo))
  IN /\ backfill.at = "read"
     /\ backfill' = IF todo = <<>> THEN [backfill EXCEPT !.at = "off"] ELSE [backfill EXCEPT !.at = "write", !.pending = ToSet(first)]
     /\ UNCHANGED <<stage, memories, consentVars, config, serviceVars, call>>

(* All rows of a request are written together, or the script ends.         *)
BackfillWrite ==
  LET ids == {r.id : r \in backfill.pending}
      m == backfill.model
  IN /\ backfill.at = "write" /\ UNCHANGED <<consentVars, config, serviceVars, call>>
     /\ \/ /\ memories' = [i \in 1 .. Len(memories) |->
                 IF memories[i].id \in ids THEN [memories[i] EXCEPT !.vec = VectorOf(memories[i].text, m), !.model = Plain(m)] ELSE memories[i]]
           /\ backfill' = [backfill EXCEPT !.at = "read", !.pending = {}] /\ UNCHANGED stage
        \/ Spend("refuse") /\ backfill' = [backfill EXCEPT !.at = "off", !.pending = {}] /\ UNCHANGED memories
-----------------------------------------------------------------------------
KnowledgeNext ==
  \/ \E k \in Calls :
       \/ (\E u \in Members : Grant(k, u) \/ Revoke(k, u))
       \/ (\E u \in Members, t \in Topics, c \in BOOLEAN : StoreMemory(k, u, <<t, 0>>, c))
       \/ (\E r \in Libraries, t \in Topics : Index(k, r, t))
       \/ (\E r \in Libraries, t \in Topics : Search(k, r, t)) \/ (\E u \in Members, t \in Topics : Rank(k, u, t))
       \/ GrantRead(k) \/ GrantWrite(k) \/ RevokeDelete(k) \/ CheckConsent(k) \/ Usage(k) \/ Insert(k) \/ WriteVector(k)
       \/ Request(k) \/ Found(k)
  \/ \E i \in 1 .. Len(memories) : Forget(memories[i]) \/ RemoveDocument(memories[i])
  \/ \E f \in flights : Answers(f) \/ Refuses(f)
  \/ (\E r \in Libraries : RemoveAll(r)) \/ Halt \/ Boot \/ BackfillRead \/ BackfillWrite
  \/ \E m \in Models : BackfillStart(m)
  \/ Tick /\ UNCHANGED knowledgeVars
-----------------------------------------------------------------------------
(* A vector belongs to the text of its row and to the model it is recorded *)
(* under, and a query is compared with vectors of its own model only       *)
(* (EmbeddingService.ts:180-260, roomKnowledge.ts:386-400), whatever the   *)
(* order of the answers, the cache, the requests that are shared, a change *)
(* of the model, or the script.                                            *)
VectorsTrue ==
  /\ \A i \in 1 .. Len(memories) :
       LET r == memories[i] IN r.vec # None => r.vec.of = r.text /\ r.vec.by = r.model[2]
  /\ \A k \in Calls : \A h \in call[k].hits : h.vec # None => h.vec.by = h.query.by

(* All of a document is in its chunks, none of which is too long           *)
(* (roomKnowledge.ts:80-126).                                              *)
ChunksCover ==
  \A k \in Calls : call[k].kind = "index" =>
    LET texts == {call[k].chunks[i][3] : i \in 1 .. Len(call[k].chunks)}
    IN /\ UNION {ToSet(call[k].text[p]) : p \in 1 .. Len(call[k].text)} \subseteq UNION {ToSet(t) : t \in texts}
       /\ \A t \in texts : Len(t) <= Target

(* Who has revoked, with nothing granted since, has no memory stored by a  *)
(* later call (MemoryTool.ts:64-99), unless the revocation could not be    *)
(* written: then the user was told otherwise.                              *)
ConsentRespected ==
  [][\A k \in Calls : call'[k].kind = "store" /\ call'[k].at = "usage" /\ call[k].at \in {"off", "check"}
       => call'[k].who \notin withdrawn]_<<call, withdrawn>>

(* What can be found is what was said and what the documents say.          *)
LibraryTrue == VectorsTrue /\ ChunksCover
=============================================================================
