--------------------------- MODULE QueryFileCache ---------------------------
(***************************************************************************)
(* TreeSitterLanguages::getQuery(): bundled query files are read once per  *)
(* canonical path and cached for the life of the process, for every program*)
(* and thread.  The filesystem policy of the caller is checked on every    *)
(* call; the mutex of the cache is not held while a file is read, so two   *)
(* callers may read the same file and the first to finish decides.         *)
(***************************************************************************)
CONSTANTS
    Name,       \* the (language, query type) pairs callers ask for
    Request,    \* paths <canonical language>/<type>.scm under the query root
    File,       \* canonical absolute paths
    Version,    \* versions of the contents of a file
    Caller,     \* threads, each running a program with its own policy
    Null,       \* no such file, not cached, no answer
    Canonical,  \* Name -> Request, or Null for an unknown language or type
    Allowed     \* Caller -> what its filesystem policy lets it read

ASSUME CanonicalNames == Canonical \in [Name -> Request \cup {Null}]
ASSUME Policies == Allowed \in [Caller -> SUBSET (Request \cup File)]

\* A text remembers the file it was written to.
Text == [of : File, version : Version]

ASSUME NullIsNothing == Null \notin Request \cup File \cup Text \cup Caller

VARIABLES
    resolve,   \* Request -> the file realpath() finds now: the query root may
               \* be changed, links may be moved
    disk,      \* File -> its contents now, Null if it cannot be read
    cache,     \* query_cache: File -> Text, Null if absent
    holder,    \* the caller that holds query_cache_mutex
    pc,        \* Caller -> where its call is
    request,   \* Caller -> path before resolution
    file,      \* Caller -> path after resolution, the cache key
    contents,  \* Caller -> what it read
    answer     \* Caller -> the string its last call returned, Null: exception

world == <<resolve, disk>>
vars == <<resolve, disk, cache, holder, pc, request, file, contents, answer>>

Steps == {"idle", "check", "resolve", "find", "lookup", "read", "store", "publish"}

TypeOK ==
    /\ resolve \in [Request -> File \cup {Null}]
    /\ disk \in [File -> Text \cup {Null}]
    /\ cache \in [File -> Text \cup {Null}]
    /\ holder \in Caller \cup {Null}
    /\ pc \in [Caller -> Steps]
    /\ request \in [Caller -> Request \cup {Null}]
    /\ file \in [Caller -> File \cup {Null}]
    /\ contents \in [Caller -> Text \cup {Null}]
    /\ answer \in [Caller -> Text \cup {Null}]

Init ==
    /\ resolve \in [Request -> File \cup {Null}]
    /\ disk = [f \in File |-> Null]
    /\ cache = [f \in File |-> Null]
    /\ holder = Null
    /\ pc = [c \in Caller |-> "idle"]
    /\ request = [c \in Caller |-> Null]
    /\ file = [c \in Caller |-> Null]
    /\ contents = [c \in Caller |-> Null]
    /\ answer = [c \in Caller |-> Null]

At(c, step) == pc[c] = step
Goto(c, step) == pc' = [pc EXCEPT ![c] = step]

\* The call returns result, and its frame is gone.
Return(c, result) ==
    /\ Goto(c, "idle")
    /\ answer' = [answer EXCEPT ![c] = result]
    /\ request' = [request EXCEPT ![c] = Null]
    /\ file' = [file EXCEPT ![c] = Null]
    /\ contents' = [contents EXCEPT ![c] = Null]

-----------------------------------------------------------------------------
Call(c, n) ==
    /\ At(c, "idle")
    /\ IF Canonical[n] = Null
       THEN /\ answer' = [answer EXCEPT ![c] = Null]
            /\ UNCHANGED <<pc, request>>
       ELSE /\ request' = [request EXCEPT ![c] = Canonical[n]]
            /\ Goto(c, "check")
            /\ UNCHANGED answer
    /\ UNCHANGED <<world, cache, holder, file, contents>>

CheckRequest(c) ==
    /\ At(c, "check")
    /\ request[c] \in Allowed[c]
    /\ Goto(c, "resolve")
    /\ UNCHANGED <<world, cache, holder, request, file, contents, answer>>

Resolve(c) ==
    /\ At(c, "resolve")
    /\ resolve[request[c]] # Null
    /\ file' = [file EXCEPT ![c] = resolve[request[c]]]
    /\ Goto(c, "find")
    /\ UNCHANGED <<world, cache, holder, request, contents, answer>>

\* Faulty: the policy is not asked for the resolved path.
FindUnasked(c) ==
    /\ At(c, "find")
    /\ holder = Null
    /\ holder' = c
    /\ Goto(c, "lookup")
    /\ UNCHANGED <<world, cache, request, file, contents, answer>>

\* Faulty: the cache is not looked at while a file is read.
FindAfterReads(c) ==
    /\ At(c, "find")
    /\ file[c] \in Allowed[c]
    /\ holder = Null /\ \A d \in Caller : ~At(d, "read")
    /\ holder' = c
    /\ Goto(c, "lookup")
    /\ UNCHANGED <<world, cache, request, file, contents, answer>>

\* The policy must also allow the file, or the cache is not even looked at.
LockToFind(c) ==
    /\ At(c, "find")
    /\ file[c] \in Allowed[c]
    /\ holder = Null
    /\ holder' = c
    /\ Goto(c, "lookup")
    /\ UNCHANGED <<world, cache, request, file, contents, answer>>

\* Faulty: the key of the cache entry is returned, not its text.
HitKey(c) ==
    /\ At(c, "lookup")
    /\ cache[file[c]] # Null
    /\ Return(c, file[c])
    /\ holder' = Null
    /\ UNCHANGED <<world, cache>>

Hit(c) ==
    /\ At(c, "lookup")
    /\ cache[file[c]] # Null
    /\ Return(c, cache[file[c]])
    /\ holder' = Null
    /\ UNCHANGED <<world, cache>>

Miss(c) ==
    /\ At(c, "lookup")
    /\ cache[file[c]] = Null
    /\ Goto(c, "read")
    /\ holder' = Null
    /\ UNCHANGED <<world, cache, request, file, contents, answer>>

\* Faulty: the path before resolution is opened.
ReadRequest(c) ==
    /\ At(c, "read")
    /\ resolve[request[c]] # Null
    /\ disk[resolve[request[c]]] # Null
    /\ contents' = [contents EXCEPT ![c] = disk[resolve[request[c]]]]
    /\ Goto(c, "store")
    /\ UNCHANGED <<world, cache, holder, request, file, answer>>

\* open() and read() without the mutex; they may take for ever.
Read(c) ==
    /\ At(c, "read")
    /\ disk[file[c]] # Null
    /\ contents' = [contents EXCEPT ![c] = disk[file[c]]]
    /\ Goto(c, "store")
    /\ UNCHANGED <<world, cache, holder, request, file, answer>>

LockToStore(c) ==
    /\ At(c, "store")
    /\ holder = Null
    /\ holder' = c
    /\ Goto(c, "publish")
    /\ UNCHANGED <<world, cache, request, file, contents, answer>>

\* Faulty: the last to read a file replaces the entry.
PublishLast(c) ==
    /\ At(c, "publish")
    /\ cache' = [cache EXCEPT ![file[c]] = contents[c]]
    /\ Return(c, cache'[file[c]])
    /\ holder' = Null
    /\ UNCHANGED world

\* emplace() keeps the entry that is there, and the call returns the entry.
Publish(c) ==
    /\ At(c, "publish")
    /\ cache' = [cache EXCEPT ![file[c]] = IF @ = Null THEN contents[c] ELSE @]
    /\ Return(c, cache'[file[c]])
    /\ holder' = Null
    /\ UNCHANGED world

\* The policy denies the request or the file, the call is cancelled, the
\* path cannot be resolved, or the file cannot be opened or read.
Fail(c) ==
    /\ \/ At(c, "check") /\ request[c] \notin Allowed[c]
       \/ At(c, "resolve")
       \/ At(c, "find") /\ file[c] \notin Allowed[c]
       \/ At(c, "read")
    /\ Return(c, Null)
    /\ UNCHANGED <<world, cache, holder>>

\* The environment variable, the working directory or a link changes.
Redirect(r, f) ==
    /\ resolve' = [resolve EXCEPT ![r] = f]
    /\ UNCHANGED <<disk, cache, holder, pc, request, file, contents, answer>>

\* A query file is edited, installed or removed.
Rewrite(f, x) ==
    /\ disk' = [disk EXCEPT ![f] = x]
    /\ UNCHANGED <<resolve, cache, holder, pc, request, file, contents, answer>>

Step(c) ==
    \/ CheckRequest(c) \/ Resolve(c) \/ LockToFind(c) \/ Hit(c) \/ Miss(c)
    \/ LockToStore(c) \/ Publish(c)

World ==
    \/ \E r \in Request, f \in File \cup {Null} : Redirect(r, f)
    \/ \E f \in File : \E x \in [of : {f}, version : Version] \cup {Null} : Rewrite(f, x)

Next ==
    \/ \E c \in Caller : Step(c) \/ Read(c) \/ Fail(c) \/ \E n \in Name : Call(c, n)
    \/ World

\* A thread inside the call keeps running; a read of the file system is not
\* known to finish, and a mutex goes to everyone who keeps asking for it.
Fairness ==
    \A c \in Caller :
        /\ WF_vars(Step(c) \/ (Fail(c) /\ pc[c] # "read"))
        /\ SF_vars(LockToFind(c) \/ LockToStore(c))

Spec == Init /\ [][Next]_vars /\ Fairness

-----------------------------------------------------------------------------
(* What must hold *)

\* A text is cached for the file it was read from and for no other, however
\* links and the query root change while the call runs.
CachedForItsFile == \A f \in File : cache[f] # Null => cache[f].of = f

Answered(c) == ~At(c, "idle") /\ pc'[c] = "idle" /\ answer'[c] # Null

\* All callers that ever ask for a file are given the same text, also when
\* several read it at once and it changes between their reads.
OneTextPerFile ==
    [][ /\ \A f \in File : cache[f] # Null => cache'[f] = cache[f]
        /\ \A c \in Caller : Answered(c) => answer'[c] = cache'[file[c]] ]_vars

\* Nobody is given a text their own policy does not let them read, also when
\* another program has put it into the cache.
PolicyOnEveryCall ==
    [][\A c \in Caller : Answered(c) => {request[c], file[c]} \subseteq Allowed[c]]_vars

\* A caller whose text is cached is answered, also while another caller waits
\* for the file system for ever.
HitsNeverWaitForReads ==
    \A c \in Caller :
        At(c, "find") /\ file[c] \in Allowed[c] /\ cache[file[c]] # Null
            ~> At(c, "idle")

-----------------------------------------------------------------------------
(* The inductive invariant behind the safety properties *)

Resolved == {"find", "lookup", "read", "store", "publish"}

\* What a file holds was written to it, and so was what a call has read.
OwnTexts ==
    /\ \A f \in File : disk[f] # Null => disk[f].of = f
    /\ CachedForItsFile
    /\ \A c \in Caller :
          pc[c] \in {"store", "publish"} =>
              contents[c] \in Text /\ contents[c].of = file[c]

\* What the policy of a call has been asked by each of its steps.
PolicyAsked ==
    \A c \in Caller :
        /\ pc[c] = "check" => request[c] \in Request
        /\ pc[c] \in Resolved \cup {"resolve"} => request[c] \in Request \cap Allowed[c]
        /\ pc[c] \in Resolved => file[c] \in File
        /\ pc[c] \in Resolved \ {"find"} => file[c] \in Allowed[c]

Inv == TypeOK /\ OwnTexts /\ PolicyAsked
=============================================================================
