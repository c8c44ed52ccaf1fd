--------------------------- MODULE DesktopDbProofs ---------------------------
(***************************************************************************)
(* Proofs about the persistence layer, for every set of handlers and       *)
(* syncs.                                                                  *)
(***************************************************************************)
EXTENDS DesktopDb, TLAPS

-----------------------------------------------------------------------------
(***************************************************************************)
(* Prefixes of sequences.                                                  *)
(***************************************************************************)

\* IsPrefix, position by position.
LEMMA PrefixPointwise ==
    ASSUME NEW S, NEW s \in Seq(S), NEW t \in Seq(S)
    PROVE  IsPrefix(s, t) <=> /\ Len(s) <= Len(t)
                              /\ \A i \in 1..Len(s) : s[i] = t[i]
  <1>1. ASSUME Len(s) <= Len(t)
        PROVE  /\ SubSeq(s, 1, Len(s)) = s
               /\ SubSeq(t, 1, Len(s)) = [i \in 1..Len(s) |-> t[i]]
               /\ s = [i \in 1..Len(s) |-> s[i]]
    BY <1>1
  <1>2. QED
    BY <1>1 DEF IsPrefix

\* A sequence is a prefix of itself: a fresh export, the file just renamed.
LEMMA PrefixReflexive ==
    ASSUME NEW S, NEW s \in Seq(S)
    PROVE  IsPrefix(s, s)
  BY PrefixPointwise

\* What was a prefix of the image still is after one more operation (Handle,
\* SyncUpsert).
LEMMA PrefixAppend ==
    ASSUME NEW S, NEW s \in Seq(S), NEW t \in Seq(S), NEW e \in S,
           IsPrefix(s, t)
    PROVE  IsPrefix(s, Append(t, e))
  <1> DEFINE u == Append(t, e)
  <1>1. /\ u \in Seq(S)
        /\ Len(u) = Len(t) + 1
        /\ \A i \in 1..Len(t) : u[i] = t[i]
    OBVIOUS
  <1>2. /\ Len(s) <= Len(t)
        /\ \A i \in 1..Len(s) : s[i] = t[i]
    BY PrefixPointwise
  <1>3. /\ Len(s) <= Len(u)
        /\ \A i \in 1..Len(s) : s[i] = u[i]
    BY <1>1, <1>2
  <1> HIDE DEF u
  <1>4. IsPrefix(s, u)
    BY <1>1, <1>3, PrefixPointwise
  <1>5. QED
    BY <1>4 DEF u

\* What a prefix contains, the longer sequence contains.
LEMMA ContainsPrefix ==
    ASSUME NEW S, NEW s \in Seq(S), NEW t \in Seq(S), NEW e,
           IsPrefix(s, t), Contains(s, e)
    PROVE  Contains(t, e)
  BY PrefixPointwise DEF Contains

\* After an operation the image contains it and all it contained before.
LEMMA ContainsAppend ==
    ASSUME NEW S, NEW s \in Seq(S), NEW e \in S
    PROVE  /\ Contains(Append(s, e), e)
           /\ \A x : Contains(s, x) => Contains(Append(s, e), x)
  BY DEF Contains

-----------------------------------------------------------------------------
(***************************************************************************)
(* The inductive invariant.  AckedIsDurable alone is not inductive: that   *)
(* the save which settles a call really wrote the call's operation needs   *)
(* the operation to be in the image when the save was asked for, in the    *)
(* export when it started, and the saves to belong to distinct waiting     *)
(* calls.                                                                  *)
(***************************************************************************)

\* The image in memory is known to extend the file: always, except while a
\* database that could not be read is being opened.
Extending == app = "running" \/ (app = "opening" /\ ~ReadMayFail)

AppInv ==
    /\ app # "running" => \A c \in Calls : call[c] \notin InFlight
    /\ app = "closed" => chain = << >>
    /\ app = "opening" => chain = <<Boot>>

ChainInv ==
    /\ phase # "queued" => chain # << >>
    /\ app = "running" =>
         \A i \in 1..Len(chain) : /\ chain[i] \in Calls
                                  /\ call[chain[i]] = "waiting"
                                  /\ Contains(mem, chain[i])
    /\ \A i, j \in 1..Len(chain) : chain[i] = chain[j] => i = j
    /\ \A c \in Calls : call[c] = "syncing" => Contains(mem, c)

FileInv ==
    /\ file.whole
    /\ Extending => IsPrefix(file.data, mem)
    /\ phase # "queued" => IsPrefix(image, mem)
    /\ phase # "queued" /\ Extending => IsPrefix(file.data, image)
    /\ phase # "queued" /\ app = "running" => Contains(image, Head(chain))
    /\ ~ReadMayFail => AckedIsDurable

IInv == TypeOK /\ AppInv /\ ChainInv /\ FileInv

\* The invariant holds before the application is started.
LEMMA InitIInv == Init => IInv
  <1> SUFFICES ASSUME Init
               PROVE  IInv
    OBVIOUS
  <1> USE DEF Init
  <1>1. TypeOK
    BY DEF TypeOK, CallState, InFlight
  <1>2. AppInv /\ ChainInv
    BY DEF AppInv, ChainInv, InFlight
  <1>3. FileInv
    BY DEF FileInv, Extending, AckedIsDurable
  <1>4. QED
    BY <1>1, <1>2, <1>3 DEF IInv

\* openDesktopDb, with the contents of the file or, where readFile may fail,
\* with none.
LEMMA OpenIInv ==
    ASSUME IInv, OpenRead
    PROVE  IInv'
  <1> USE DEF IInv
  <1>0. PICK contents \in Seq(Calls) :
              Open(contents) /\ (~ReadMayFail => contents = file.data)
    <2>1. file.data \in Seq(Calls) /\ << >> \in Seq(Calls)
      BY DEF TypeOK
    <2>2. QED
      BY <2>1 DEF OpenRead, ReadResults
  <1> USE <1>0 DEF Open
  <1>1. TypeOK'
    <2>1. <<Boot>> \in Seq(Calls \cup {Boot})
      OBVIOUS
    <2>2. QED
      BY <2>1 DEF TypeOK
  <1>2. AppInv'
    BY DEF AppInv
  <1>3. phase = "queued" /\ chain = << >>
    BY DEF AppInv, ChainInv, TypeOK
  <1>4. ChainInv'
    BY <1>3 DEF ChainInv, AppInv, InFlight, TypeOK
  <1>5. ~ReadMayFail => IsPrefix(file'.data, mem')
    BY PrefixReflexive DEF TypeOK
  <1>6. FileInv'
    BY <1>3, <1>5 DEF FileInv, Extending, AckedIsDurable
  <1>7. QED
    BY <1>1, <1>2, <1>4, <1>6

\* The handler's operation goes to the end of the image, its save to the end
\* of the chain.
LEMMA HandleIInv ==
    ASSUME IInv, NEW c \in Handlers, Handle(c)
    PROVE  IInv'
  <1> USE DEF IInv, Handle, Persist
  <1>0. c \in Calls /\ c # Boot
    BY CallsAssumption DEF Calls
  <1>1. TypeOK'
    BY <1>0 DEF TypeOK, CallState, InFlight
  <1>2. AppInv'
    BY DEF AppInv
  <1>3. /\ Len(chain') = Len(chain) + 1
        /\ \A i \in 1..Len(chain) : chain'[i] = chain[i]
        /\ chain'[Len(chain) + 1] = c
    BY <1>0 DEF TypeOK
  <1>4. /\ Contains(mem', c)
        /\ \A x : Contains(mem, x) => Contains(mem', x)
    BY <1>0, ContainsAppend DEF TypeOK
  <1>5. \A i \in 1..Len(chain) : chain[i] # c
    BY <1>0 DEF ChainInv
  <1>6. ChainInv'
    <2>1. chain' # << >>
      BY <1>0 DEF TypeOK
    <2>2. \A i \in 1..Len(chain') : /\ chain'[i] \in Calls
                                    /\ call'[chain'[i]] = "waiting"
                                    /\ Contains(mem', chain'[i])
      <3> TAKE i \in 1..Len(chain')
      <3>1. Len(chain) \in Nat
        BY DEF TypeOK
      <3>2. CASE i \in 1..Len(chain)
        BY <1>0, <1>3, <1>4, <1>5, <3>2 DEF ChainInv, TypeOK
      <3>3. CASE i = Len(chain) + 1
        BY <1>0, <1>3, <1>4, <3>3 DEF TypeOK
      <3>4. QED
        BY <1>3, <3>1, <3>2, <3>3
    <2>3. \A i, j \in 1..Len(chain') : chain'[i] = chain'[j] => i = j
      <3>1. Len(chain) \in Nat
        BY DEF TypeOK
      <3>2. QED
        BY <1>3, <1>5, <3>1 DEF ChainInv
    <2>4. \A d \in Calls : call'[d] = "syncing" => Contains(mem', d)
      BY <1>0, <1>4 DEF ChainInv, TypeOK
    <2>5. QED
      BY <2>1, <2>2, <2>3, <2>4 DEF ChainInv
  <1>7. FileInv'
    <2>1. \A s \in Seq(Calls) : IsPrefix(s, mem) => IsPrefix(s, mem')
      BY <1>0, PrefixAppend DEF TypeOK
    <2>2. phase # "queued" => Head(chain') = Head(chain)
      BY <1>0, <1>3 DEF ChainInv, TypeOK
    <2>3. QED
      BY <2>1, <2>2 DEF FileInv, Extending, AckedIsDurable, TypeOK
  <1>8. QED
    BY <1>1, <1>2, <1>6, <1>7

\* The sync changes the image and asks for no save yet.
LEMMA SyncUpsertIInv ==
    ASSUME IInv, NEW s \in Syncs, SyncUpsert(s)
    PROVE  IInv'
  <1> USE DEF IInv, SyncUpsert
  <1>0. s \in Calls
    BY DEF Calls
  <1>1. TypeOK'
    BY <1>0 DEF TypeOK, CallState, InFlight
  <1>2. AppInv'
    BY DEF AppInv
  <1>3. /\ Contains(mem', s)
        /\ \A x : Contains(mem, x) => Contains(mem', x)
    BY <1>0, ContainsAppend DEF TypeOK
  <1>4. ChainInv'
    BY <1>0, <1>3 DEF ChainInv, TypeOK
  <1>5. \A t \in Seq(Calls) : IsPrefix(t, mem) => IsPrefix(t, mem')
    BY <1>0, PrefixAppend DEF TypeOK
  <1>6. FileInv'
    BY <1>5 DEF FileInv, Extending, AckedIsDurable, TypeOK
  <1>7. QED
    BY <1>1, <1>2, <1>4, <1>6

\* The sync asks for its save later than it changed the image.
LEMMA SyncPersistIInv ==
    ASSUME IInv, NEW s \in Syncs, SyncPersist(s)
    PROVE  IInv'
  <1> USE DEF IInv, SyncPersist, Persist
  <1>0. s \in Calls /\ s # Boot /\ app = "running" /\ Contains(mem, s)
    BY CallsAssumption DEF Calls, AppInv, ChainInv, InFlight
  <1>1. TypeOK'
    BY <1>0 DEF TypeOK, CallState, InFlight
  <1>2. AppInv'
    BY <1>0 DEF AppInv
  <1>3. /\ Len(chain) \in Nat
        /\ Len(chain') = Len(chain) + 1
        /\ \A i \in 1..Len(chain) : chain'[i] = chain[i]
        /\ chain'[Len(chain) + 1] = s
    BY <1>0 DEF TypeOK
  <1>4. \A i \in 1..Len(chain) : chain[i] # s
    BY <1>0 DEF ChainInv
  <1>5. ChainInv'
    <2>1. chain' # << >>
      BY <1>3
    <2>2. \A i \in 1..Len(chain') : /\ chain'[i] \in Calls
                                    /\ call'[chain'[i]] = "waiting"
                                    /\ Contains(mem', chain'[i])
      <3> TAKE i \in 1..Len(chain')
      <3>1. CASE i \in 1..Len(chain)
        BY <1>0, <1>3, <1>4, <3>1 DEF ChainInv, TypeOK
      <3>2. CASE i = Len(chain) + 1
        BY <1>0, <1>3, <3>2 DEF TypeOK
      <3>3. QED
        BY <1>3, <3>1, <3>2
    <2>3. \A i, j \in 1..Len(chain') : chain'[i] = chain'[j] => i = j
      BY <1>3, <1>4 DEF ChainInv
    <2>4. \A d \in Calls : call'[d] = "syncing" => Contains(mem', d)
      BY <1>0 DEF ChainInv, TypeOK
    <2>5. QED
      BY <2>1, <2>2, <2>3, <2>4 DEF ChainInv
  <1>6. phase # "queued" => Head(chain') = Head(chain)
    BY <1>0, <1>3 DEF ChainInv, TypeOK
  <1>7. FileInv'
    BY <1>6 DEF FileInv, Extending, AckedIsDurable, TypeOK
  <1>8. QED
    BY <1>1, <1>2, <1>5, <1>7

\* Steps that only move a call outside the chain.
LEMMA CallOnlyIInv ==
    ASSUME IInv,
           \/ \E s \in Syncs : SyncFetchFails(s)
           \/ \E c \in Calls : Reply(c)
    PROVE  IInv'
  <1> USE DEF IInv, SyncFetchFails, Reply
  <1>1. PICK c \in Calls : /\ call[c] \in {"syncing", "saved"}
                           /\ \/ call' = [call EXCEPT ![c] = "rejected"]
                              \/ /\ call[c] = "saved"
                                 /\ call' = [call EXCEPT ![c] = "replied"]
                           /\ UNCHANGED <<app, mem, chain, phase, image, file>>
    BY DEF Calls
  <1>2. TypeOK'
    BY <1>1 DEF TypeOK, CallState, InFlight
  <1>3. AppInv'
    BY <1>1 DEF AppInv, InFlight, TypeOK
  <1>4. ChainInv'
    BY <1>1 DEF ChainInv, TypeOK
  <1>5. FileInv'
    BY <1>1 DEF FileInv, Extending, AckedIsDurable, TypeOK
  <1>6. QED
    BY <1>2, <1>3, <1>4, <1>5

\* The head's save exports the image as it is now, with its caller's operation.
LEMMA RunExportIInv ==
    ASSUME IInv, RunExport
    PROVE  IInv'
  <1> USE DEF IInv, RunExport
  <1>1. TypeOK'
    BY DEF TypeOK
  <1>2. AppInv' /\ ChainInv'
    BY DEF AppInv, ChainInv
  <1>3. IsPrefix(image', mem')
    BY PrefixReflexive DEF TypeOK
  <1>4. app = "running" => Contains(image', Head(chain'))
    BY DEF ChainInv, TypeOK
  <1>5. FileInv'
    BY <1>3, <1>4 DEF FileInv, Extending, AckedIsDurable
  <1>6. QED
    BY <1>1, <1>2, <1>5

\* The temporary file is written; nothing else changes.
LEMMA RunWrittenIInv ==
    ASSUME IInv, RunWritten
    PROVE  IInv'
  BY DEF IInv, RunWritten, TypeOK, AppInv, ChainInv, FileInv, Extending,
         AckedIsDurable

\* What settling the head's save leaves of the chain.
LEMMA SettleChain ==
    ASSUME IInv, phase # "queued", NEW outcome \in {"saved", "rejected"},
           Settle(outcome)
    PROVE  /\ chain' \in Seq(Calls \cup {Boot})
           /\ call' \in [Calls -> CallState]
           /\ Head(chain) = chain[1]
           /\ Head(chain) \in Calls \cup {Boot}
           /\ Len(chain') = Len(chain) - 1
           /\ Len(chain') \in Nat
           /\ \A i \in 1..Len(chain') : /\ i + 1 \in 1..Len(chain)
                                        /\ chain'[i] = chain[i + 1]
                                        /\ chain'[i] # Head(chain)
           /\ \A i, j \in 1..Len(chain') : chain'[i] = chain'[j] => i = j
           /\ app = "opening" => Head(chain) = Boot /\ chain' = << >>
           /\ app = "running" => Head(chain) \in Calls /\ Head(chain) # Boot
           /\ app # "closed"
  <1> USE DEF IInv, Settle
  <1>1. chain # << >> /\ chain \in Seq(Calls \cup {Boot}) /\ app # "closed"
    BY DEF ChainInv, AppInv, TypeOK
  <1>2. /\ Len(chain) \in Nat \ {0}
        /\ Head(chain) = chain[1]
        /\ Head(chain) \in Calls \cup {Boot}
        /\ chain' \in Seq(Calls \cup {Boot})
        /\ Len(chain') = Len(chain) - 1
        /\ \A i \in 1..Len(chain') : i + 1 \in 1..Len(chain) /\ chain'[i] = chain[i + 1]
    BY <1>1
  <1>3. /\ \A i \in 1..Len(chain') : chain'[i] # Head(chain)
        /\ \A i, j \in 1..Len(chain') : chain'[i] = chain'[j] => i = j
    BY <1>2 DEF ChainInv
  <1>4. call' \in [Calls -> CallState]
    BY <1>2 DEF TypeOK, CallState, InFlight
  <1>5. app = "opening" => Head(chain) = Boot /\ chain' = << >>
    BY <1>2 DEF AppInv
  <1>6. app = "running" => Head(chain) \in Calls /\ Head(chain) # Boot
    BY <1>2, CallsAssumption DEF ChainInv, Calls
  <1>7. QED
    BY <1>1, <1>2, <1>3, <1>4, <1>5, <1>6

\* The rename: the file takes over the export, the caller is served.
LEMMA RunRenamedIInv ==
    ASSUME IInv, RunRenamed
    PROVE  IInv'
  <1> DEFINE h == Head(chain)
  <1>0. phase # "queued" /\ phase' = "queued" /\ Settle("saved")
    BY DEF RunRenamed, Settle
  <1>1. /\ chain' \in Seq(Calls \cup {Boot})
        /\ call' \in [Calls -> CallState]
        /\ Len(chain') \in Nat /\ Len(chain') = Len(chain) - 1
        /\ \A i \in 1..Len(chain') : /\ i + 1 \in 1..Len(chain)
                                     /\ chain'[i] = chain[i + 1]
                                     /\ chain'[i] # h
        /\ \A i, j \in 1..Len(chain') : chain'[i] = chain'[j] => i = j
        /\ app = "opening" => h = Boot /\ chain' = << >>
        /\ app = "running" => h \in Calls /\ h # Boot
        /\ app # "closed"
    BY <1>0, SettleChain
  <1>2. /\ file' = [data |-> image, whole |-> TRUE]
        /\ app' = "running" /\ mem' = mem /\ image' = image
        /\ call' = IF h = Boot THEN call ELSE [call EXCEPT ![h] = "saved"]
    BY DEF RunRenamed, Settle
  <1> HIDE DEF h
  <1>3. TypeOK'
    BY <1>0, <1>1, <1>2 DEF IInv, TypeOK
  <1>4. AppInv'
    BY <1>2 DEF AppInv
  <1>5. ChainInv'
    <2>1. \A i \in 1..Len(chain') : /\ chain'[i] \in Calls
                                    /\ call'[chain'[i]] = "waiting"
                                    /\ Contains(mem', chain'[i])
      <3> TAKE i \in 1..Len(chain')
      <3>1. CASE app = "opening"
        <4>1. Len(chain') = 0
          BY <1>1, <3>1
        <4>2. QED
          BY <4>1
      <3>2. CASE app = "running"
        <4>1. i + 1 \in 1..Len(chain) /\ chain'[i] = chain[i + 1] /\ chain'[i] # h
          BY <1>1
        <4>2. /\ chain[i + 1] \in Calls
              /\ call[chain[i + 1]] = "waiting"
              /\ Contains(mem, chain[i + 1])
          BY <3>2, <4>1 DEF IInv, ChainInv
        <4>3. QED
          BY <1>1, <1>2, <3>2, <4>1, <4>2 DEF IInv, TypeOK
      <3>3. QED
        BY <1>1, <3>1, <3>2 DEF IInv, TypeOK
    <2>3. \A c \in Calls : call'[c] = "syncing" => Contains(mem', c)
      BY <1>1, <1>2 DEF IInv, ChainInv, TypeOK
    <2>4. QED
      BY <1>0, <1>1, <2>1, <2>3 DEF ChainInv
  <1>6. FileInv'
    <2>1. IsPrefix(file'.data, mem')
      BY <1>0, <1>2 DEF IInv, FileInv
    <2>2. ~ReadMayFail => AckedIsDurable'
      <3> SUFFICES ASSUME ~ReadMayFail, NEW c \in Calls,
                          call'[c] \in {"saved", "replied"}
                   PROVE  Contains(image, c)
        BY <1>2 DEF AckedIsDurable
      <3>1. CASE app = "running" /\ c = h
        BY <1>0, <3>1 DEF IInv, FileInv, h
      <3>2. CASE ~(app = "running" /\ c = h)
        <4>1. call[c] \in {"saved", "replied"}
          BY <1>1, <1>2, <3>2, CallsAssumption DEF IInv, TypeOK, Calls
        <4>2. Contains(file.data, c)
          BY <4>1 DEF IInv, FileInv, AckedIsDurable
        <4>3. IsPrefix(file.data, image)
          BY <1>0, <1>1 DEF IInv, FileInv, Extending, TypeOK
        <4>4. QED
          BY <4>2, <4>3, ContainsPrefix DEF IInv, TypeOK
      <3>3. QED
        BY <3>1, <3>2
    <2>3. QED
      BY <1>0, <1>2, <2>1, <2>2 DEF FileInv, Extending
  <1>7. QED
    BY <1>3, <1>4, <1>5, <1>6 DEF IInv

\* A failed save: only its caller is told; the image keeps the operation.
LEMMA RunFailsIInv ==
    ASSUME IInv, RunFails
    PROVE  IInv'
  <1> DEFINE h == Head(chain)
  <1>0. phase # "queued" /\ phase' = "queued" /\ Settle("rejected")
    BY DEF RunFails, Settle
  <1>1. /\ chain' \in Seq(Calls \cup {Boot})
        /\ call' \in [Calls -> CallState]
        /\ Len(chain') \in Nat /\ Len(chain') = Len(chain) - 1
        /\ \A i \in 1..Len(chain') : /\ i + 1 \in 1..Len(chain)
                                     /\ chain'[i] = chain[i + 1]
                                     /\ chain'[i] # h
        /\ \A i, j \in 1..Len(chain') : chain'[i] = chain'[j] => i = j
        /\ app = "opening" => h = Boot /\ chain' = << >>
        /\ app = "running" => h \in Calls /\ h # Boot
        /\ app # "closed"
    BY <1>0, SettleChain
  <1>2. /\ file' = file /\ image' = image
        /\ app' = IF h = Boot THEN "closed" ELSE app
        /\ mem' = IF h = Boot THEN << >> ELSE mem
        /\ call' = IF h = Boot THEN call ELSE [call EXCEPT ![h] = "rejected"]
    BY DEF RunFails, Settle
  <1> HIDE DEF h
  <1>3. TypeOK'
    BY <1>0, <1>1, <1>2 DEF IInv, TypeOK
  <1>4. CASE app = "opening"
    <2>1. app' = "closed" /\ mem' = << >> /\ chain' = << >> /\ call' = call
      BY <1>1, <1>2, <1>4
    <2>2. AppInv'
      BY <1>4, <2>1 DEF IInv, AppInv
    <2>3. ChainInv'
      BY <1>0, <1>4, <2>1 DEF IInv, AppInv, ChainInv, InFlight
    <2>4. FileInv'
      BY <1>0, <1>2, <2>1 DEF IInv, FileInv, Extending, AckedIsDurable
    <2>5. QED
      BY <1>3, <2>2, <2>3, <2>4 DEF IInv
  <1>5. CASE app = "running"
    <2>1. /\ app' = "running" /\ mem' = mem /\ h \in Calls
          /\ call' = [call EXCEPT ![h] = "rejected"]
      BY <1>1, <1>2, <1>5
    <2>2. AppInv'
      BY <2>1 DEF AppInv
    <2>3. \A i \in 1..Len(chain') : /\ chain'[i] \in Calls
                                    /\ call'[chain'[i]] = "waiting"
                                    /\ Contains(mem', chain'[i])
      <3> TAKE i \in 1..Len(chain')
      <3>1. i + 1 \in 1..Len(chain) /\ chain'[i] = chain[i + 1] /\ chain'[i] # h
        BY <1>1
      <3>2. /\ chain[i + 1] \in Calls
            /\ call[chain[i + 1]] = "waiting"
            /\ Contains(mem, chain[i + 1])
        BY <1>5, <3>1 DEF IInv, ChainInv
      <3>3. QED
        BY <2>1, <3>1, <3>2 DEF IInv, TypeOK
    <2>5. ChainInv'
      BY <1>0, <1>1, <2>1, <2>3 DEF IInv, ChainInv, TypeOK
    <2>6. FileInv'
      BY <1>0, <1>2, <1>5, <2>1 DEF IInv, FileInv, Extending, AckedIsDurable, TypeOK
    <2>7. QED
      BY <1>3, <2>2, <2>5, <2>6 DEF IInv
  <1>6. QED
    BY <1>1, <1>4, <1>5 DEF IInv, TypeOK

\* The end of the process leaves the file, and no call in flight.
LEMMA ExitIInv ==
    ASSUME IInv, Exit
    PROVE  IInv'
  <1> USE DEF IInv, Exit
  <1>1. TypeOK'
    BY DEF TypeOK, CallState, InFlight
  <1>2. \A c \in Calls : /\ call'[c] \notin InFlight
                         /\ call'[c] = "replied" => call[c] = "replied"
    BY DEF TypeOK, InFlight
  <1>3. AppInv'
    BY <1>2 DEF AppInv
  <1>4. ChainInv'
    BY <1>2 DEF ChainInv, InFlight
  <1>5. FileInv'
    BY <1>2 DEF FileInv, Extending, AckedIsDurable, InFlight
  <1>6. QED
    BY <1>1, <1>3, <1>4, <1>5

\* Every step of the persistence layer keeps the invariant.
LEMMA StepIInv == IInv /\ [Next]_vars => IInv'
  <1> SUFFICES ASSUME IInv, [Next]_vars
               PROVE  IInv'
    OBVIOUS
  <1>1. CASE OpenRead
    BY <1>1, OpenIInv
  <1>2. ASSUME NEW c \in Handlers, Handle(c)
        PROVE  IInv'
    BY <1>2, HandleIInv
  <1>3. ASSUME NEW s \in Syncs, SyncUpsert(s)
        PROVE  IInv'
    BY <1>3, SyncUpsertIInv
  <1>4. ASSUME NEW s \in Syncs, SyncPersist(s)
        PROVE  IInv'
    BY <1>4, SyncPersistIInv
  <1>5. CASE (\E s \in Syncs : SyncFetchFails(s)) \/ (\E c \in Calls : Reply(c))
    BY <1>5, CallOnlyIInv
  <1>6. CASE RunExport
    BY <1>6, RunExportIInv
  <1>7. CASE RunWritten
    BY <1>7, RunWrittenIInv
  <1>8. CASE RunRenamed
    BY <1>8, RunRenamedIInv
  <1>9. CASE RunFails
    BY <1>9, RunFailsIInv
  <1>10. CASE Exit
    BY <1>10, ExitIInv
  <1>11. CASE UNCHANGED vars
    BY <1>11 DEF vars, IInv, TypeOK, AppInv, ChainInv, FileInv, Extending,
                 AckedIsDurable
  <1>12. QED
    BY <1>1, <1>2, <1>3, <1>4, <1>5, <1>6, <1>7, <1>8, <1>9, <1>10, <1>11 DEF Next

\* The inductive invariant holds in every reachable state.
LEMMA Invariance == Spec => []IInv
  BY InitIInv, StepIInv, PTL DEF Spec

-----------------------------------------------------------------------------
(***************************************************************************)
(* The theorems.                                                           *)
(***************************************************************************)

\* Every variable keeps its type, whatever calls there are.
THEOREM TypeCorrect == Spec => []TypeOK
  <1>1. IInv => TypeOK
    BY DEF IInv
  <1>2. QED
    BY <1>1, Invariance, PTL

\* The file of a database in use is a whole export of a state its image went
\* through: also in the sessions that began with an unreadable file.
THEOREM FileIsEarlierStateHolds == Spec => []FileIsEarlierState
  <1>1. IInv => FileIsEarlierState
    BY DEF IInv, FileInv, Extending, FileIsEarlierState
  <1>2. QED
    BY <1>1, Invariance, PTL

\* When the file can be read, what a handler answered for is in the file, over
\* failed saves, crashes and restarts.
THEOREM AckedIsDurableHolds ==
    ASSUME ~ReadMayFail
    PROVE  Spec => []AckedIsDurable
  <1>1. IInv => AckedIsDurable
    BY DEF IInv, FileInv
  <1>2. QED
    BY <1>1, Invariance, PTL

\* A save never puts an older export in place of a newer one.
LEMMA StepNoRollback ==
    ASSUME IInv, [Next]_vars, Extending \/ ~ReadMayFail
    PROVE  IsPrefix(file.data, file'.data)
  <1>1. CASE RunRenamed
    <2>1. /\ phase # "queued" /\ app # "closed"
          /\ file'.data = image
      BY <1>1 DEF RunRenamed, IInv, ChainInv, AppInv
    <2>2. Extending
      BY <2>1 DEF Extending, IInv, TypeOK
    <2>3. QED
      BY <2>1, <2>2 DEF IInv, FileInv
  <1>2. CASE ~RunRenamed
    <2>1. UNCHANGED file
      BY <1>2 DEF Next, vars, OpenRead, ReadResults, Open, Handle, SyncUpsert,
                  SyncPersist, SyncFetchFails, Reply, RunExport, RunWritten,
                  RunFails, Exit
    <2>2. QED
      BY <2>1, PrefixReflexive DEF IInv, TypeOK
  <1>3. QED
    BY <1>1, <1>2

\* No save of any session puts an older export in place of a newer one
\* (the chain of persist()), when a file that exists can be read.
THEOREM NoRollbackHolds ==
    ASSUME ~ReadMayFail
    PROVE  Spec => NoRollback
  <1>1. IInv /\ [Next]_vars => [IsPrefix(file.data, file'.data)]_vars
    BY StepNoRollback
  <1>2. QED
    BY <1>1, Invariance, PTL DEF Spec, NoRollback

\* Within a session the file only moves forward, even when the session began
\* with a database file it could not read.
THEOREM NoRollbackInSessionHolds == Spec => NoRollbackInSession
  <1>1. IInv /\ [Next]_vars
          => [app = "running" /\ app' # "closed"
                => IsPrefix(file.data, file'.data)]_vars
    BY StepNoRollback DEF Extending
  <1>2. QED
    BY <1>1, Invariance, PTL DEF Spec, NoRollbackInSession

\* A failed write rejects the one caller at the head of the chain; the saves
\* behind it go on (then(run, run) in DesktopDb.persist).
THEOREM OneCallerPerFailureHolds == Spec => OneCallerPerFailure
  <1>1. ASSUME IInv, [Next]_vars,
               NEW c \in Calls, call[c] = "waiting", call'[c] = "rejected"
        PROVE  c = Head(chain)
    <2>1. call \in [Calls -> CallState]
      BY <1>1 DEF IInv, TypeOK
    <2>2. CASE RunFails
      BY <1>1, <2>1, <2>2 DEF RunFails, Settle
    <2>3. CASE RunRenamed
      BY <1>1, <2>1, <2>3 DEF RunRenamed, Settle
    <2>4. CASE Exit
      BY <1>1, <2>1, <2>4 DEF Exit
    <2>5. CASE \E s \in Syncs : SyncUpsert(s) \/ SyncPersist(s) \/ SyncFetchFails(s)
      BY <1>1, <2>1, <2>5 DEF SyncUpsert, SyncPersist, SyncFetchFails, Calls
    <2>6. CASE (\E h \in Handlers : Handle(h)) \/ (\E d \in Calls : Reply(d))
      BY <1>1, <2>1, <2>6 DEF Handle, Reply, Calls
    <2>7. CASE OpenRead \/ RunExport \/ RunWritten \/ UNCHANGED vars
      BY <1>1, <2>7 DEF OpenRead, Open, RunExport, RunWritten, vars
    <2>8. QED
      BY <1>1, <2>2, <2>3, <2>4, <2>5, <2>6, <2>7 DEF Next
  <1>2. IInv /\ [Next]_vars =>
          \A c, d \in Calls :
             /\ call[c] = "waiting" /\ call'[c] = "rejected"
             /\ call[d] = "waiting" /\ call'[d] = "rejected"
             => c = d
    <2>1. SUFFICES ASSUME IInv, [Next]_vars, NEW c \in Calls, NEW d \in Calls,
                          call[c] = "waiting", call'[c] = "rejected",
                          call[d] = "waiting", call'[d] = "rejected"
                   PROVE  c = d
      OBVIOUS
    <2>2. c = Head(chain) /\ d = Head(chain)
      BY <1>1, <2>1
    <2>3. QED
      BY <2>2
  <1>3. QED
    BY <1>2, Invariance, PTL DEF Spec, OneCallerPerFailure

-----------------------------------------------------------------------------
(***************************************************************************)
(* The persistence layer implements DurableStore.  A handler or a sync     *)
(* applies its operation, a rename saves, a reply acknowledges, the end of *)
(* the process loses what is not in the file; the other steps stutter.     *)
(***************************************************************************)
Volatile == IF app = "closed" THEN file.data ELSE mem
Acked == {c \in Calls : call[c] = "replied"}

\* The initial states map to those of DurableStore.
LEMMA InitDurableStore == Init => DS!Init
  BY DEF Init, DS!Init

\* Every step maps to a step of DurableStore or to a stutter: the rename to a
\* Save, the reply to an Acknowledge, the end of the process to LoseVolatile.
LEMMA StepDurableStore ==
    ASSUME IInv, [Next]_vars, ~ReadMayFail
    PROVE  [DS!Next]_(DS!absVars)
  <1> DEFINE stutter == /\ Volatile' = Volatile
                        /\ file'.data = file.data
                        /\ Acked' = Acked
  <1>0. stutter => UNCHANGED DS!absVars
    BY DEF DS!absVars, Volatile, Acked
  <1>1. CASE OpenRead
    <2>1. stutter
      BY <1>1 DEF OpenRead, ReadResults, Open, Volatile, Acked
    <2>2. QED
      BY <1>0, <2>1
  <1>2. ASSUME NEW c \in Calls, app = "running", mem' = Append(mem, c),
               UNCHANGED <<app, file>>, call[c] = "idle",
               call' \in {[call EXCEPT ![c] = o] : o \in {"waiting", "syncing"}}
        PROVE  DS!Next
    <2>1. Acked' = Acked
      BY <1>2 DEF Acked, IInv, TypeOK
    <2>2. DS!Apply(c)
      BY <1>2, <2>1 DEF DS!Apply, Acked
    <2>3. QED
      BY <2>2 DEF DS!Next
  <1>3. ASSUME NEW c \in Handlers, Handle(c)
        PROVE  DS!Next
    BY <1>2, <1>3 DEF Handle, Calls
  <1>4. ASSUME NEW s \in Syncs, SyncUpsert(s)
        PROVE  DS!Next
    BY <1>2, <1>4 DEF SyncUpsert, Calls
  <1>5. ASSUME NEW s \in Syncs, SyncPersist(s) \/ SyncFetchFails(s)
        PROVE  UNCHANGED DS!absVars
    <2>1. Acked' = Acked
      BY <1>5 DEF SyncPersist, SyncFetchFails, Acked, IInv, TypeOK, Calls
    <2>2. stutter
      BY <1>5, <2>1 DEF SyncPersist, SyncFetchFails, Volatile
    <2>3. QED
      BY <1>0, <2>2
  <1>6. ASSUME NEW c \in Calls, Reply(c)
        PROVE  DS!Next
    <2>1. Acked' = Acked \cup {c}
      BY <1>6 DEF Reply, Acked, IInv, TypeOK
    <2>2. Contains(file.data, c)
      BY <1>6 DEF Reply, IInv, FileInv, AckedIsDurable
    <2>3. DS!Acknowledge(c)
      <3>1. Volatile' = Volatile /\ file' = file
        BY <1>6 DEF Reply, Volatile
      <3>2. QED
        BY <2>1, <2>2, <3>1, Zenon
           DEF DS!Acknowledge, DS!Contains, Contains, Acked, Volatile
    <2>4. QED
      BY <2>3 DEF DS!Next
  <1>7. CASE RunExport \/ RunWritten
    <2>1. stutter
      BY <1>7 DEF RunExport, RunWritten, Volatile, Acked
    <2>2. QED
      BY <1>0, <2>1
  <1>8. CASE RunRenamed
    <2>1. /\ phase # "queued" /\ app # "closed" /\ app' = "running"
          /\ mem' = mem /\ file'.data = image
      BY <1>8 DEF RunRenamed, IInv, ChainInv, AppInv
    <2>2. /\ IsPrefix(file.data, file'.data)
          /\ IsPrefix(file'.data, mem)
      BY <2>1, StepNoRollback DEF IInv, FileInv
    <2>3. file'.data \in Seq(Calls)
      BY <2>1 DEF IInv, TypeOK
    <2>4. Acked' = Acked
      <3>1. Head(chain) \in Calls => call[Head(chain)] = "waiting"
        BY <2>1, CallsAssumption
           DEF IInv, TypeOK, ChainInv, AppInv, Calls
      <3>2. QED
        BY <1>8, <3>1 DEF RunRenamed, Settle, Acked, IInv, TypeOK
    <2>5. DS!Save
      <3>1. Volatile' = mem /\ Volatile = mem
        BY <2>1 DEF Volatile
      <3>2. Volatile' = Volatile /\ IsPrefix(file'.data, Volatile)
        BY <2>2, <3>1
      <3>3. QED
        BY <2>2, <2>3, <2>4, <3>2, Zenon
           DEF DS!Save, DS!IsPrefix, IsPrefix, Acked, Volatile
    <2>6. QED
      BY <2>5 DEF DS!Next
  <1>9. CASE RunFails
    <2>1. /\ phase # "queued" /\ app # "closed" /\ file' = file
      BY <1>9 DEF RunFails, IInv, ChainInv, AppInv
    <2>2. Acked' = Acked
      <3>1. Head(chain) \in Calls => call[Head(chain)] = "waiting"
        BY <2>1, CallsAssumption
           DEF IInv, TypeOK, ChainInv, AppInv, Calls
      <3>2. QED
        BY <1>9, <3>1 DEF RunFails, Settle, Acked, IInv, TypeOK
    <2>3. CASE Head(chain) = Boot
      <3>1. DS!LoseVolatile
        BY <1>9, <2>1, <2>2, <2>3 DEF RunFails, DS!LoseVolatile, Acked
      <3>2. QED
        BY <3>1 DEF DS!Next
    <2>4. CASE Head(chain) # Boot
      <3>1. stutter
        BY <1>9, <2>1, <2>2, <2>4 DEF RunFails, Volatile
      <3>2. QED
        BY <1>0, <3>1
    <2>5. QED
      BY <2>3, <2>4
  <1>10. CASE Exit
    <2>1. Acked' = Acked
      BY <1>10 DEF Exit, Acked, InFlight, IInv, TypeOK
    <2>2. DS!LoseVolatile
      BY <1>10, <2>1 DEF Exit, DS!LoseVolatile, Acked
    <2>3. QED
      BY <2>2 DEF DS!Next
  <1>11. CASE UNCHANGED vars
    BY <1>0, <1>11 DEF vars, Volatile, Acked
  <1>12. QED
    BY <1>1, <1>3, <1>4, <1>5, <1>6, <1>7, <1>8, <1>9, <1>10, <1>11 DEF Next

\* Provided the database file can be read, the persistence layer is a store
\* that acknowledges only what is stable and never rolls back.
THEOREM ImplementsDurableStoreHolds ==
    ASSUME ~ReadMayFail
    PROVE  Spec => ImplementsDurableStore
  <1>1. IInv /\ [Next]_vars => [DS!Next]_(DS!absVars)
    BY StepDurableStore
  <1>2. QED
    BY <1>1, InitDurableStore, Invariance, PTL
       DEF Spec, ImplementsDurableStore, DS!Spec
=============================================================================
