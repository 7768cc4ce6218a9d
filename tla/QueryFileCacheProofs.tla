------------------------ MODULE QueryFileCacheProofs ------------------------
(***************************************************************************)
(* Proofs about QueryFileCache, for every set of names, files, versions and *)
(* callers and every policy.                                               *)
(*                                                                         *)
(* The argument: a call carries the file its path resolved to from the     *)
(* policy check to the cache (PolicyAsked), and everything that moves from *)
(* the disk through a frame into the cache is a text of that file          *)
(* (OwnTexts).  Publish is the only action that writes the cache, and only *)
(* where nothing is.                                                       *)
(***************************************************************************)
EXTENDS QueryFileCache, TLAPS

LEMMA CallStep ==
  ASSUME Inv, NEW c \in Caller, NEW n \in Name, Call(c, n)
  PROVE  Inv'
<1>1. TypeOK'
  BY CanonicalNames DEF Inv, TypeOK, Call, At, Goto, Return, Steps, world, PolicyAsked, Resolved
<1>2. OwnTexts'
  BY DEF Inv, TypeOK, OwnTexts, CachedForItsFile, PolicyAsked, Resolved, Call, At, Goto, Return,
     world
<1>3. PolicyAsked'
  BY CanonicalNames DEF Inv, TypeOK, PolicyAsked, Resolved, Call, At, Goto, Return, world
<1> QED BY <1>1, <1>2, <1>3 DEF Inv

LEMMA CheckRequestStep ==
  ASSUME Inv, NEW c \in Caller, CheckRequest(c)
  PROVE  Inv'
<1>1. TypeOK'
  BY CanonicalNames DEF Inv, TypeOK, CheckRequest, At, Goto, Return, Steps, world, PolicyAsked, Resolved
<1>2. OwnTexts'
  BY DEF Inv, TypeOK, OwnTexts, CachedForItsFile, PolicyAsked, Resolved, CheckRequest, At, Goto, Return,
     world
<1>3. PolicyAsked'
  BY CanonicalNames DEF Inv, TypeOK, PolicyAsked, Resolved, CheckRequest, At, Goto, Return, world
<1> QED BY <1>1, <1>2, <1>3 DEF Inv

LEMMA ResolveStep ==
  ASSUME Inv, NEW c \in Caller, Resolve(c)
  PROVE  Inv'
<1>1. TypeOK'
  BY CanonicalNames DEF Inv, TypeOK, Resolve, At, Goto, Return, Steps, world, PolicyAsked, Resolved
<1>2. OwnTexts'
  BY DEF Inv, TypeOK, OwnTexts, CachedForItsFile, PolicyAsked, Resolved, Resolve, At, Goto, Return,
     world
<1>3. PolicyAsked'
  BY CanonicalNames DEF Inv, TypeOK, PolicyAsked, Resolved, Resolve, At, Goto, Return, world
<1> QED BY <1>1, <1>2, <1>3 DEF Inv

LEMMA LockToFindStep ==
  ASSUME Inv, NEW c \in Caller, LockToFind(c)
  PROVE  Inv'
<1>1. TypeOK'
  BY CanonicalNames DEF Inv, TypeOK, LockToFind, At, Goto, Return, Steps, world, PolicyAsked, Resolved
<1>2. OwnTexts'
  BY DEF Inv, TypeOK, OwnTexts, CachedForItsFile, PolicyAsked, Resolved, LockToFind, At, Goto, Return,
     world
<1>3. PolicyAsked'
  BY CanonicalNames DEF Inv, TypeOK, PolicyAsked, Resolved, LockToFind, At, Goto, Return, world
<1> QED BY <1>1, <1>2, <1>3 DEF Inv

LEMMA HitStep ==
  ASSUME Inv, NEW c \in Caller, Hit(c)
  PROVE  Inv'
<1>1. TypeOK'
  BY CanonicalNames DEF Inv, TypeOK, Hit, At, Goto, Return, Steps, world, PolicyAsked, Resolved
<1>2. OwnTexts'
  BY DEF Inv, TypeOK, OwnTexts, CachedForItsFile, PolicyAsked, Resolved, Hit, At, Goto, Return,
     world
<1>3. PolicyAsked'
  BY CanonicalNames DEF Inv, TypeOK, PolicyAsked, Resolved, Hit, At, Goto, Return, world
<1> QED BY <1>1, <1>2, <1>3 DEF Inv

LEMMA MissStep ==
  ASSUME Inv, NEW c \in Caller, Miss(c)
  PROVE  Inv'
<1>1. TypeOK'
  BY CanonicalNames DEF Inv, TypeOK, Miss, At, Goto, Return, Steps, world, PolicyAsked, Resolved
<1>2. OwnTexts'
  BY DEF Inv, TypeOK, OwnTexts, CachedForItsFile, PolicyAsked, Resolved, Miss, At, Goto, Return,
     world
<1>3. PolicyAsked'
  BY CanonicalNames DEF Inv, TypeOK, PolicyAsked, Resolved, Miss, At, Goto, Return, world
<1> QED BY <1>1, <1>2, <1>3 DEF Inv

LEMMA ReadStep ==
  ASSUME Inv, NEW c \in Caller, Read(c)
  PROVE  Inv'
<1>1. TypeOK'
  BY CanonicalNames DEF Inv, TypeOK, Read, At, Goto, Return, Steps, world, PolicyAsked, Resolved
<1>2. OwnTexts'
  BY DEF Inv, TypeOK, OwnTexts, CachedForItsFile, PolicyAsked, Resolved, Read, At, Goto, Return,
     world
<1>3. PolicyAsked'
  BY CanonicalNames DEF Inv, TypeOK, PolicyAsked, Resolved, Read, At, Goto, Return, world
<1> QED BY <1>1, <1>2, <1>3 DEF Inv

LEMMA LockToStoreStep ==
  ASSUME Inv, NEW c \in Caller, LockToStore(c)
  PROVE  Inv'
<1>1. TypeOK'
  BY CanonicalNames DEF Inv, TypeOK, LockToStore, At, Goto, Return, Steps, world, PolicyAsked, Resolved
<1>2. OwnTexts'
  BY DEF Inv, TypeOK, OwnTexts, CachedForItsFile, PolicyAsked, Resolved, LockToStore, At, Goto, Return,
     world
<1>3. PolicyAsked'
  BY CanonicalNames DEF Inv, TypeOK, PolicyAsked, Resolved, LockToStore, At, Goto, Return, world
<1> QED BY <1>1, <1>2, <1>3 DEF Inv

LEMMA PublishStep ==
  ASSUME Inv, NEW c \in Caller, Publish(c)
  PROVE  Inv'
<1>1. TypeOK'
  BY CanonicalNames DEF Inv, TypeOK, Publish, At, Goto, Return, Steps, world, PolicyAsked, Resolved
<1>2. OwnTexts'
  BY DEF Inv, TypeOK, OwnTexts, CachedForItsFile, PolicyAsked, Resolved, Publish, At, Goto, Return,
     world
<1>3. PolicyAsked'
  BY CanonicalNames DEF Inv, TypeOK, PolicyAsked, Resolved, Publish, At, Goto, Return, world
<1> QED BY <1>1, <1>2, <1>3 DEF Inv

LEMMA FailStep ==
  ASSUME Inv, NEW c \in Caller, Fail(c)
  PROVE  Inv'
<1>1. TypeOK'
  BY CanonicalNames DEF Inv, TypeOK, Fail, At, Goto, Return, Steps, world, PolicyAsked, Resolved
<1>2. OwnTexts'
  BY DEF Inv, TypeOK, OwnTexts, CachedForItsFile, PolicyAsked, Resolved, Fail, At, Goto, Return,
     world
<1>3. PolicyAsked'
  BY CanonicalNames DEF Inv, TypeOK, PolicyAsked, Resolved, Fail, At, Goto, Return, world
<1> QED BY <1>1, <1>2, <1>3 DEF Inv

LEMMA WorldStep ==
  ASSUME Inv, World
  PROVE  Inv'
<1>1. TypeOK'
  BY DEF Inv, TypeOK, World, Redirect, Rewrite, Text
<1>2. OwnTexts'
  BY DEF Inv, TypeOK, OwnTexts, CachedForItsFile, World, Redirect, Rewrite
<1>3. PolicyAsked'
  BY DEF Inv, PolicyAsked, World, Redirect, Rewrite
<1> QED BY <1>1, <1>2, <1>3 DEF Inv

LEMMA InitInv == Init => Inv
BY DEF Init, Inv, TypeOK, OwnTexts, CachedForItsFile, PolicyAsked, Resolved, Steps

LEMMA NextInv == Inv /\ [Next]_vars => Inv'
<1> SUFFICES ASSUME Inv, [Next]_vars PROVE Inv'
  OBVIOUS
<1>1. CASE UNCHANGED vars
  BY <1>1 DEF vars, Inv, TypeOK, OwnTexts, CachedForItsFile, PolicyAsked
<1>2. ASSUME NEW c \in Caller, Step(c) PROVE Inv'
  BY <1>2, CheckRequestStep, ResolveStep, LockToFindStep, HitStep, MissStep, LockToStoreStep,
     PublishStep DEF Step
<1>3. ASSUME NEW c \in Caller, Read(c) \/ Fail(c) PROVE Inv'
  BY <1>3, ReadStep, FailStep
<1>4. ASSUME NEW c \in Caller, NEW n \in Name, Call(c, n) PROVE Inv'
  BY <1>4, CallStep
<1> QED BY <1>1, <1>2, <1>3, <1>4, WorldStep DEF Next

THEOREM Invariant == Spec => []Inv
BY InitInv, NextInv, PTL DEF Spec

-----------------------------------------------------------------------------
\* Members and frames keep their types.
THEOREM TypeCorrect == Spec => []TypeOK
<1>1. Inv => TypeOK
  BY DEF Inv
<1> QED BY Invariant, <1>1, PTL

\* A cached text was read from the file it is cached for.
THEOREM CacheIsByFile == Spec => []CachedForItsFile
<1>1. Inv => CachedForItsFile
  BY DEF Inv, OwnTexts
<1> QED BY Invariant, <1>1, PTL

\* A step answers with the entry of the file, and no step changes an entry.
LEMMA StepAnswers ==
  ASSUME Inv, [Next]_vars
  PROVE  /\ \A f \in File : cache[f] # Null => cache'[f] = cache[f]
         /\ \A c \in Caller : Answered(c) =>
               /\ answer'[c] = cache'[file[c]]
               /\ {request[c], file[c]} \subseteq Allowed[c]
<1>1. CASE UNCHANGED vars
  BY <1>1 DEF vars, Answered, At
<1>2. ASSUME NEW c \in Caller, CheckRequest(c) \/ Resolve(c) \/ LockToFind(c) \/ Miss(c)
                               \/ LockToStore(c) \/ Read(c)
      PROVE  cache' = cache /\ \A d \in Caller : ~Answered(d)
  BY <1>2 DEF CheckRequest, Resolve, LockToFind, Miss, LockToStore, Read, Answered, At, Goto,
     Inv, TypeOK
<1>3. ASSUME NEW c \in Caller, NEW n \in Name, Call(c, n)
      PROVE  cache' = cache /\ \A d \in Caller : ~Answered(d)
  BY <1>3 DEF Call, Answered, At, Goto, Inv, TypeOK
<1>4. ASSUME NEW c \in Caller, Fail(c)
      PROVE  cache' = cache /\ \A d \in Caller : ~Answered(d)
  BY <1>4 DEF Fail, Return, Answered, At, Goto, Inv, TypeOK
<1>5. CASE World
  BY <1>5 DEF World, Redirect, Rewrite, Answered, At
<1>6. ASSUME NEW c \in Caller, Hit(c)
      PROVE  /\ cache' = cache
             /\ \A d \in Caller : Answered(d) => d = c /\ answer'[d] = cache'[file[d]]
                                   /\ {request[d], file[d]} \subseteq Allowed[d]
  BY <1>6 DEF Hit, Return, Answered, At, Goto, Inv, TypeOK, PolicyAsked, Resolved
<1>7. ASSUME NEW c \in Caller, Publish(c)
      PROVE  /\ \A f \in File : cache[f] # Null => cache'[f] = cache[f]
             /\ \A d \in Caller : Answered(d) => d = c /\ answer'[d] = cache'[file[d]]
                                   /\ {request[d], file[d]} \subseteq Allowed[d]
  BY <1>7 DEF Publish, Return, Answered, At, Goto, Inv, TypeOK, PolicyAsked, Resolved
<1> QED BY <1>1, <1>2, <1>3, <1>4, <1>5, <1>6, <1>7 DEF Next, Step

\* All callers are given the same text of a file.
THEOREM AnswersAgree == Spec => OneTextPerFile
<1>1. Inv /\ [Next]_vars =>
        [ /\ \A f \in File : cache[f] # Null => cache'[f] = cache[f]
          /\ \A c \in Caller : Answered(c) => answer'[c] = cache'[file[c]] ]_vars
  BY StepAnswers
<1> QED BY <1>1, Invariant, PTL DEF Spec, OneTextPerFile

\* No caller is given a text its own policy denies, cached or not.
THEOREM PolicyHolds == Spec => PolicyOnEveryCall
<1>1. Inv /\ [Next]_vars =>
        [\A c \in Caller : Answered(c) => {request[c], file[c]} \subseteq Allowed[c]]_vars
  BY StepAnswers
<1> QED BY <1>1, Invariant, PTL DEF Spec, PolicyOnEveryCall
=============================================================================
