---------------------------- MODULE PreviewReader ----------------------------
(***************************************************************************)
(* Those who show a thumbnail or send it to a provider: the endpoints for  *)
(* owners and grantees (service/thumb_service.go, shared_read_service.go)  *)
(* and the resolver of the AI workers (ai/imginput).  Each reads the row   *)
(* first and opens the object of the version it found there later, when    *)
(* ThumbPipeline may have queued the row again, replaced its content and   *)
(* begun to write another version.  What is opened may be a copy: the      *)
(* flash cache has the store's keys (storage/flash_cache.go), a browser    *)
(* keeps what it was sent under an ETag of asset, size and version         *)
(* (httpapi/media_thumb.go).  Nothing deletes an object.                   *)
(***************************************************************************)
EXTENDS ThumbPipeline

CONSTANT Reader   \* requests, and claims whose preview is being resolved

VARIABLES
    reading,    \* what each reader looked up and what it got
    copies      \* objects in the flash cache and in browsers

rvars == <<reading, copies>>

\* image is what the photo showed when the row was read, got what was opened.
Reading == [asset : Asset, version : Nat, size : 1..Sizes, image : Nat, got : Nat]
Copy == [asset : Asset, version : Nat, size : 1..Sizes, source : Nat]
NoReading == [asset |-> "none"]

ReaderTypeOK ==
    /\ reading \in [Reader -> Reading \cup {NoReading}]
    /\ copies \subseteq Copy

ReaderInit ==
    /\ Init
    /\ reading = [r \in Reader |-> NoReading]
    /\ copies = {}

Active(r) == reading[r] # NoReading
Opened(r) == Active(r) /\ reading[r].got # 0

\* Only a ready row is answered, of the size asked for.
LookUp(r, m, k) ==
    /\ ~Active(r)
    /\ status[m] = "ready"
    /\ reading' = [reading EXCEPT ![r] =
         [asset |-> m, version |-> version[m], size |-> k, image |-> content[m], got |-> 0]]
    /\ UNCHANGED copies

Found(r) ==
    {o \in stored[reading[r].asset] :
        o.version = reading[r].version /\ o.size = reading[r].size}

Got(r, source) == reading' = [reading EXCEPT ![r].got = source]

\* The object itself.
Open(r) ==
    /\ Active(r) /\ ~Opened(r)
    /\ \E o \in Found(r) : Got(r, o.source)
    /\ UNCHANGED copies

\* A copy under the same key, or under the ETag that the row confirms.
OpenCopy(r) ==
    /\ Active(r) /\ ~Opened(r)
    /\ \E c \in copies :
         /\ c.asset = reading[r].asset
         /\ c.version = reading[r].version
         /\ c.size = reading[r].size
         /\ Got(r, c.source)
    /\ UNCHANGED copies

\* The answer is sent, or the request is given up.
Close(r) ==
    /\ Active(r)
    /\ reading' = [reading EXCEPT ![r] = NoReading]
    /\ UNCHANGED copies

\* The cache is filled on a write and on a read; a browser keeps an answer.
Populate(m) ==
    /\ \E o \in stored[m] :
         copies' = copies \cup
           {[asset |-> m, version |-> o.version, size |-> o.size, source |-> o.source]}
    /\ UNCHANGED reading

Evict(c) == c \in copies /\ copies' = copies \ {c} /\ UNCHANGED reading

Read ==
    \/ \E r \in Reader, m \in Asset, k \in 1..Sizes : LookUp(r, m, k)
    \/ \E r \in Reader : Open(r) \/ OpenCopy(r) \/ Close(r)
    \/ \E m \in Asset : Populate(m)
    \/ \E c \in copies : Evict(c)

ReaderNext == (Next /\ UNCHANGED rvars) \/ (Read /\ UNCHANGED tvars)

ReaderSpec == ReaderInit /\ [][ReaderNext]_<<tvars, rvars>>

-----------------------------------------------------------------------------
(* Properties.                                                             *)

\* "A regenerate that bumps thumb_version doesn't leave the resolver pointing
\* at a stale or missing file": what was looked up can be opened for as long
\* as it takes.
FoundWhenLookedUp == \A r \in Reader : Active(r) => Found(r) # {}

\* A read in two steps, from the store or from a copy, is a read at the moment
\* of the first: it shows what was current when the row was read.
ReadIsAtomic == \A r \in Reader : Opened(r) => reading[r].got = reading[r].image

\* A copy that the row's present version confirms shows the present content.
ConfirmedIsCurrent ==
    \A c \in copies :
        status[c.asset] = "ready" /\ version[c.asset] = c.version => c.source = content[c.asset]
=============================================================================
