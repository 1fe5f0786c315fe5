------------------------- MODULE OpenDatabaseProofs -------------------------
(***************************************************************************)
(* Opening leaves nothing behind when it fails, and a reader has one       *)
(* version of a file that others replace, for any number of openers, files *)
(* and versions; and opening is atomic: it implements AtomicOpen.          *)
(*                                                                         *)
(* Phases says what a call owns at each point.  Versions says what it has  *)
(* seen: while the file is read, the blocks so far are those of the inode  *)
(* it has open, which nobody may use for another file.                     *)
(***************************************************************************)
EXTENDS OpenDatabase, SequenceTheorems, TLAPS

Owns(t) ==
  /\ pc[t] \notin {"idle", "raised"} => mode[t] \in Mode
  /\ pc[t] \in {"open", "load"} => Kind(t) # "fd"
  /\ pc[t] \in {"idle", "args", "open", "raised"} =>
       fd[t] = None /\ map[t] = None /\ buf[t] = <<>>
  /\ pc[t] = "load" =>
       /\ fd[t] # None /\ map[t] = None /\ Len(buf[t]) < Blocks
       /\ Kind(t) = "mmap" => buf[t] = <<>>
  /\ pc[t] \in {"verify", "reader"} =>
       /\ fd[t] = None
       /\ IF map[t] # None THEN buf[t] = <<>> ELSE Len(buf[t]) = Blocks
       /\ Kind(t) # "mmap" => map[t] = None

Phases == \A t \in Opener : Owns(t)

Sees(t) ==
  /\ pc[t] = "load" => \A k \in 1..Len(buf[t]) : buf[t][k] = content[fd[t]][k]
  /\ pc[t] \in {"verify", "reader"} => ~Torn(View(t))
  /\ pc[t] = "reader" => View(t)[1] \notin Garbage

Versions == ~inplace => /\ \A i \in Inode : ~Torn(content[i])
                        /\ \A t \in Opener : Sees(t)

\* A step of a call leaves the other calls and the file system alone.
Alone(t) == /\ UNCHANGED fs
            /\ \A u \in Opener \ {t} :
                 /\ pc'[u] = pc[u] /\ mode'[u] = mode[u] /\ fd'[u] = fd[u] /\ map'[u] = map[u]
                 /\ buf'[u] = buf[u] /\ outcome'[u] = outcome[u]

Step(t) == \/ Call(t) \/ ExtractPath(t) \/ OpenFile(t) \/ Map(t) \/ Read(t)
           \/ ReadObject(t) \/ Verify(t) \/ Drop(t)

\* The blocks of a whole version are a sequence.
LEMMA WholeLength ==
  ASSUME NEW v \in Version
  PROVE  Whole(v) \in Seq(Version) /\ Len(Whole(v)) = 2
<1>1. Whole(v) \in [1..2 -> Version] /\ DOMAIN Whole(v) = 1..2
  BY DEF Whole, Blocks
<1>2. Whole(v) \in Seq(Version)
  <2>1. [1..2 -> Version] \in {[1..n -> Version] : n \in Nat}
    OBVIOUS
  <2> QED BY <1>1, <2>1, SeqDef
<1> HIDE DEF Whole
<1>3. Len(Whole(v)) \in Nat /\ 1..Len(Whole(v)) = 1..2
  BY <1>1, <1>2, LenProperties
<1>4. ASSUME NEW n \in Nat, 1..n = 1..2 PROVE n = 2
  <2>1. 2 \in 1..n /\ n + 1 \notin 1..n
    BY <1>4
  <2> QED BY <1>4, <2>1
<1> QED BY <1>2, <1>3, <1>4

\* An exception is the calling thread's own: the others see nothing of it.
LEMMA RaiseAlone ==
  ASSUME TypeOK, NEW t \in Opener, NEW e, Raise(t, e)
  PROVE  /\ Alone(t) /\ mode' = mode
         /\ pc'[t] = "raised" /\ fd'[t] = None /\ map'[t] = None /\ buf'[t] = <<>>
         /\ e \in Errors => TypeOK'
<1>1. Alone(t) /\ mode' = mode
  BY DEF TypeOK, Raise, Goto, Alone, fs
<1>2. pc'[t] = "raised" /\ fd'[t] = None /\ map'[t] = None /\ buf'[t] = <<>>
  BY DEF TypeOK, Raise, Goto
<1>3. ASSUME e \in Errors PROVE TypeOK'
  <2>1. inplace' \in BOOLEAN /\ dir' \in Inode \cup {None} /\ content' \in [Inode -> Bytes]
    BY DEF TypeOK, Raise, fs
  <2>2. pc' \in [Opener -> Label] /\ mode' \in [Opener -> Mode \cup {None}]
    BY DEF TypeOK, Raise, Goto, Label
  <2>3. fd' \in [Opener -> Inode \cup {None}] /\ map' \in [Opener -> Inode \cup {None}]
    BY DEF TypeOK, Raise
  <2>4. buf' \in [Opener -> Seq(Version)] /\ \A u \in Opener : Len(buf'[u]) <= Blocks
    <3>1. <<>> \in Seq(Version) /\ Len(<<>>) = 0
      OBVIOUS
    <3> QED BY <3>1 DEF TypeOK, Raise, Blocks
  <2>5. outcome' \in [Opener -> Errors \cup {None}]
    BY <1>3 DEF TypeOK, Raise
  <2> QED BY <2>1, <2>2, <2>3, <2>4, <2>5 DEF TypeOK
<1> QED BY <1>1, <1>2, <1>3

\* So is every other step of a call.
LEMMA StepAlone ==
  ASSUME TypeOK, Phases, NEW t \in Opener, Step(t)
  PROVE  Alone(t) /\ TypeOK'
<1> USE DEF Goto, Alone, fs
<1>1. CASE Call(t)
  <2>1. CASE Raise(t, "ValueError")
    BY <2>1, RaiseAlone DEF Errors
  <2>2. CASE ~Raise(t, "ValueError")
    BY <1>1, <2>2 DEF Call, TypeOK, Label
  <2> QED BY <2>1, <2>2
<1>2. CASE ExtractPath(t)
  <2>1. CASE \E e \in {"ValueError", "of the caller"} : Raise(t, e)
    BY <2>1, RaiseAlone DEF Errors
  <2>2. CASE ~(\E e \in {"ValueError", "of the caller"} : Raise(t, e))
    BY <1>2, <2>2 DEF ExtractPath, TypeOK, Label
  <2> QED BY <2>1, <2>2
<1>3. CASE OpenFile(t)
  <2>1. CASE Raise(t, "FileNotFoundError") \/ Raise(t, "OSError")
    BY <2>1, RaiseAlone DEF Errors
  <2>2. CASE ~(Raise(t, "FileNotFoundError") \/ Raise(t, "OSError"))
    BY <1>3, <2>2 DEF OpenFile, TypeOK, Label
  <2> QED BY <2>1, <2>2
<1>4. CASE Map(t)
  <2>1. CASE Raise(t, "OSError")
    BY <2>1, RaiseAlone DEF Errors
  <2>2. CASE ~Raise(t, "OSError")
    BY <1>4, <2>2 DEF Map, TypeOK, Label
  <2> QED BY <2>1, <2>2
<1>5. CASE Drop(t)
  BY <1>5 DEF Drop, TypeOK, Label, Blocks
<1>6. CASE Verify(t)
  <2>1. CASE Raise(t, "InvalidDatabaseError")
    BY <2>1, RaiseAlone DEF Errors
  <2>2. CASE ~Raise(t, "InvalidDatabaseError")
    BY <1>6, <2>2 DEF Verify, TypeOK, Label
  <2> QED BY <2>1, <2>2
<1>7. CASE Read(t)
  <2>1. CASE Raise(t, "OSError")
    BY <2>1, RaiseAlone DEF Errors
  <2>2. CASE ~Raise(t, "OSError")
    <3> DEFINE b == content[fd[t]][Len(buf[t]) + 1]
               new == Append(buf[t], b)
    <3>1. buf[t] \in Seq(Version) /\ Len(buf[t]) \in Nat /\ Len(buf[t]) < 2
      BY <1>7 DEF Read, TypeOK, Phases, Owns, Blocks
    <3>2. b \in Version
      <4>1. fd[t] \in Inode
        BY <1>7 DEF Read, TypeOK, Phases, Owns
      <4>2. Len(buf[t]) + 1 \in 1..2
        BY <3>1
      <4> QED BY <4>1, <4>2 DEF TypeOK, Bytes, Blocks
    <3>3. new \in Seq(Version) /\ Len(new) = Len(buf[t]) + 1
      BY <3>1, <3>2
    <3>4. buf' = [buf EXCEPT ![t] = new]
      BY <1>7, <2>2 DEF Read
    <3>5. buf' \in [Opener -> Seq(Version)] /\ \A u \in Opener : Len(buf'[u]) <= Blocks
      BY <3>1, <3>3, <3>4 DEF TypeOK, Blocks
    <3> HIDE DEF b, new
    <3>6. Alone(t)
      BY <1>7, <2>2, <3>4 DEF Read, TypeOK
    <3>7. UNCHANGED <<fs, mode, map, outcome>>
      BY <1>7, <2>2 DEF Read
    <3>8. pc' \in [Opener -> Label] /\ fd' \in [Opener -> Inode \cup {None}]
      BY <1>7, <2>2 DEF Read, TypeOK, Label
    <3> QED BY <3>5, <3>6, <3>7, <3>8 DEF TypeOK
  <2> QED BY <2>1, <2>2
<1>8. CASE ReadObject(t)
  <2>1. CASE Raise(t, "of the caller")
    BY <2>1, RaiseAlone DEF Errors
  <2>2. CASE ~Raise(t, "of the caller")
    <3>1. PICK v \in Version : buf' = [buf EXCEPT ![t] = Whole(v)]
      BY <1>8, <2>2 DEF ReadObject
    <3>2. Whole(v) \in Seq(Version) /\ Len(Whole(v)) = 2
      BY WholeLength
    <3>3. buf' \in [Opener -> Seq(Version)] /\ \A u \in Opener : Len(buf'[u]) <= Blocks
      <4>1. buf' \in [Opener -> Seq(Version)]
        BY <3>1, <3>2 DEF TypeOK
      <4>2. ASSUME NEW u \in Opener PROVE Len(buf'[u]) <= Blocks
        <5>1. CASE u = t
          <6>1. buf'[u] = Whole(v)
            BY <3>1, <5>1 DEF TypeOK
          <6>2. Len(buf'[u]) = 2
            BY <3>2, <6>1
          <6> QED BY <6>2 DEF Blocks
        <5>2. CASE u # t
          <6>1. buf'[u] = buf[u]
            BY <3>1, <5>2 DEF TypeOK
          <6> QED BY <6>1 DEF TypeOK
        <5> QED BY <5>1, <5>2
      <4> QED BY <4>1, <4>2
    <3>4. UNCHANGED <<fs, mode, fd, map, outcome>> /\ pc' = [pc EXCEPT ![t] = "verify"]
      BY <1>8, <2>2 DEF ReadObject
    <3>5. Alone(t)
      BY <3>1, <3>4 DEF TypeOK
    <3> QED BY <3>3, <3>4, <3>5 DEF TypeOK, Label
  <2> QED BY <2>1, <2>2
<1> QED BY <1>1, <1>2, <1>3, <1>4, <1>5, <1>6, <1>7, <1>8 DEF Step

\* What each call owns is kept by its own steps, and not touched by the others'.
LEMMA PhasesStep ==
  ASSUME TypeOK, Phases, NEW t \in Opener, Step(t)
  PROVE  Phases'
<1>1. Alone(t) /\ TypeOK'
  BY StepAlone
<1> USE DEF Owns
<1>2. ASSUME NEW u \in Opener \ {t} PROVE Owns(u)'
  BY <1>1, <1>2 DEF Alone, Phases, Kind
<1>3. Owns(t)
  BY DEF Phases
<1>4. ASSUME NEW e, Raise(t, e) PROVE Owns(t)'
  BY <1>4, RaiseAlone
<1>5. ASSUME Call(t), ~(\E e \in Errors : Raise(t, e)) PROVE Owns(t)'
  BY <1>3, <1>5 DEF Call, Goto, TypeOK, Errors
<1>6. ASSUME ExtractPath(t), ~(\E e \in Errors : Raise(t, e)) PROVE Owns(t)'
  <2>1. pc'[t] = "open" /\ UNCHANGED <<mode, fd, map, buf>>
    BY <1>6 DEF ExtractPath, Goto, TypeOK, Errors
  <2>2. Kind(t)' # "fd"
    BY <1>6, <2>1 DEF ExtractPath, Kind, PathMode
  <2>3. pc[t] = "args"
    BY <1>6 DEF ExtractPath
  <2> QED BY <1>3, <2>1, <2>2, <2>3
<1>7. ASSUME OpenFile(t), ~(\E e \in Errors : Raise(t, e)) PROVE Owns(t)'
  <2>1. fd'[t] = dir /\ dir # None /\ pc'[t] = "load" /\ buf'[t] = <<>> /\ map'[t] = None /\ mode' = mode
    BY <1>3, <1>7 DEF OpenFile, Goto, TypeOK, Errors
  <2>2. Len(<<>>) < Blocks
    BY DEF Blocks
  <2>3. pc[t] = "open" /\ Kind(t)' = Kind(t)
    BY <1>7, <2>1 DEF OpenFile, Kind
  <2> QED BY <1>3, <2>1, <2>2, <2>3
<1>8. ASSUME Map(t), ~(\E e \in Errors : Raise(t, e)) PROVE Owns(t)'
  <2>1. Kind(t) = "mmap" /\ Kind(t)' = "mmap"
    BY <1>8 DEF Map, Kind, Errors
  <2> QED BY <1>3, <1>8, <2>1 DEF Map, Goto, TypeOK, Errors
<1>9. ASSUME Read(t), ~(\E e \in Errors : Raise(t, e)) PROVE Owns(t)'
  <2>1. mode' = mode /\ map' = map /\ Kind(t) = "memory" /\ Kind(t)' = "memory"
    BY <1>9 DEF Read, Kind, Errors
  <2>2. pc[t] = "load" /\ mode[t] \in Mode
    BY <1>3, <1>9 DEF Read
  <2>3. CASE Len(buf'[t]) < Blocks
    BY <1>3, <1>9, <2>1, <2>2, <2>3 DEF Read, Errors
  <2>4. CASE ~(Len(buf'[t]) < Blocks)
    <3>1. Len(buf'[t]) = Blocks
      <4>1. buf'[t] \in Seq(Version) /\ Len(buf'[t]) <= 2
        BY <1>1 DEF TypeOK, Blocks
      <4>2. Len(buf'[t]) \in Nat
        BY <4>1, LenProperties
      <4>3. ~(Len(buf'[t]) < 2)
        BY <2>4 DEF Blocks
      <4>4. \A n \in Nat : n <= 2 /\ ~(n < 2) => n = 2
        OBVIOUS
      <4>5. Len(buf'[t]) = 2
        BY <4>1, <4>2, <4>3, <4>4, Zenon
      <4> QED BY <4>5 DEF Blocks
    <3>2. fd'[t] = None /\ pc'[t] = "verify"
      BY <1>9, <2>4 DEF Read, Errors, Goto, TypeOK
    <3> QED BY <1>3, <2>1, <2>2, <3>1, <3>2
  <2> QED BY <2>3, <2>4
<1>10. ASSUME ReadObject(t), ~(\E e \in Errors : Raise(t, e)) PROVE Owns(t)'
  <2>1. PICK v \in Version : buf' = [buf EXCEPT ![t] = Whole(v)]
    BY <1>10 DEF ReadObject, Errors
  <2>2. buf'[t] = Whole(v) /\ Len(buf'[t]) = Blocks
    BY <2>1, WholeLength DEF TypeOK, Blocks
  <2> QED BY <1>3, <1>10, <2>2 DEF ReadObject, Goto, TypeOK, Errors
<1>11. ASSUME Verify(t), ~(\E e \in Errors : Raise(t, e)) PROVE Owns(t)'
  BY <1>3, <1>11 DEF Verify, Goto, TypeOK, Errors, Kind
<1>12. ASSUME Drop(t) PROVE Owns(t)'
  BY <1>3, <1>12 DEF Drop, Goto, TypeOK
<1>13. Owns(t)'
  <2>1. CASE \E e \in Errors : Raise(t, e)
    BY <2>1, <1>4
  <2>2. CASE ~(\E e \in Errors : Raise(t, e))
    <3> HIDE DEF Owns
    <3> QED BY <1>5, <1>6, <1>7, <1>8, <1>9, <1>10, <1>11, <1>12, <2>2 DEF Step
  <2> QED BY <2>1, <2>2
<1>14. \A u \in Opener : Owns(u)'
  <2> HIDE DEF Owns
  <2> QED BY <1>2, <1>13
<1> QED BY <1>14 DEF Phases

Environment == Replace \/ Unlink \/ Overwrite

\* Others change the file system and nothing of the calls.
LEMMA EnvironmentStep ==
  ASSUME TypeOK, Phases, Environment
  PROVE  TypeOK' /\ Phases' /\ UNCHANGED <<inplace, pc, mode, fd, map, buf, outcome>>
<1>1. UNCHANGED <<inplace, pc, mode, fd, map, buf, outcome>>
  BY DEF Environment, Replace, Unlink, Overwrite
<1>2. Phases'
  BY <1>1 DEF Phases, Owns, Kind
<1>3. content' \in [Inode -> Bytes] /\ dir' \in Inode \cup {None}
  <2>1. CASE Replace
    <3>1. PICK i \in Inode, v \in Version : content' = [content EXCEPT ![i] = Whole(v)] /\ dir' = i
      BY <2>1 DEF Replace
    <3>2. Whole(v) \in Bytes
      BY DEF Whole, Bytes
    <3> QED BY <3>1, <3>2 DEF TypeOK
  <2>2. CASE Unlink
    BY <2>2 DEF Unlink, TypeOK
  <2>3. CASE Overwrite
    <3>1. PICK b \in 1..Blocks, v \in Version :
            dir # None /\ dir' = dir /\ content' = [content EXCEPT ![dir][b] = v]
      BY <2>3 DEF Overwrite
    <3>2. [content[dir] EXCEPT ![b] = v] \in Bytes
      BY <3>1 DEF TypeOK, Bytes
    <3> QED BY <3>1, <3>2 DEF TypeOK
  <2> QED BY <2>1, <2>2, <2>3 DEF Environment
<1> QED BY <1>1, <1>2, <1>3 DEF TypeOK

\* A file that is replaced or removed stays as it is for those that have it open or mapped.
LEMMA EnvironmentVersions ==
  ASSUME TypeOK, Phases, Versions, Environment
  PROVE  Versions'
<1>1. UNCHANGED <<inplace, pc, mode, fd, map, buf, outcome>>
  BY EnvironmentStep
<1>2. CASE inplace
  BY <1>1, <1>2 DEF Versions
<1>3. CASE ~inplace /\ Replace
  <2>1. PICK i \in Inode, v \in Version : ~InUse(i) /\ content' = [content EXCEPT ![i] = Whole(v)]
    BY <1>3 DEF Replace
  <2>2. ASSUME NEW j \in Inode PROVE ~Torn(content'[j])
    <3>1. CASE j = i
      <4>1. content'[j] = Whole(v)
        BY <2>1, <3>1 DEF TypeOK
      <4> QED BY <4>1 DEF Whole, Torn, Blocks
    <3>2. CASE j # i
      <4>1. content'[j] = content[j]
        BY <2>1, <3>2 DEF TypeOK
      <4> QED BY <4>1, <1>3 DEF Versions, Torn
    <3> QED BY <3>1, <3>2
  <2>3. ASSUME NEW t \in Opener PROVE Sees(t)'
    <3>1. Sees(t)
      BY <1>3 DEF Versions
    <3>2. ASSUME NEW j \in Inode, fd[t] = j \/ map[t] = j PROVE content'[j] = content[j]
      BY <2>1, <3>2 DEF InUse, TypeOK
    <3>3. View(t)' = View(t)
      BY <1>1, <3>2 DEF View, TypeOK
    <3>4. pc[t] = "load" => content'[fd[t]] = content[fd[t]]
      BY <3>2 DEF Phases, Owns, TypeOK
    <3> QED BY <1>1, <3>1, <3>3, <3>4 DEF Sees, Torn
  <2> QED BY <2>2, <2>3 DEF Versions
<1>4. CASE Unlink
  <2>1. content' = content
    BY <1>4 DEF Unlink
  <2> QED BY <1>1, <2>1 DEF Versions, Sees, View, Torn
<1>5. CASE Overwrite
  BY <1>2, <1>5 DEF Overwrite
<1> QED BY <1>2, <1>3, <1>4, <1>5 DEF Environment

\* A block that is read is the next of the file that is open.
LEMMA ReadGrows ==
  ASSUME TypeOK, NEW t \in Opener, Owns(t), Sees(t), Read(t), ~(\E e \in Errors : Raise(t, e))
  PROVE  /\ fd[t] \in Inode /\ map[t] = None
         /\ Len(buf[t]) \in 0..1 /\ Len(buf'[t]) = Len(buf[t]) + 1
         /\ \A k \in 1..Len(buf[t]) + 1 : buf'[t][k] = content[fd[t]][k]
<1> DEFINE n == Len(buf[t])
           i == fd[t]
<1>1. pc[t] = "load" /\ n \in 0..1 /\ i \in Inode /\ buf[t] \in Seq(Version) /\ map[t] = None
  <2>1. n \in Nat /\ n < 2
    BY LenProperties DEF Read, Owns, TypeOK, Blocks
  <2>2. \A m \in Nat : m < 2 => m \in 0..1
    OBVIOUS
  <2> HIDE DEF n
  <2>3. n \in 0..1
    BY <2>1, <2>2
  <2> USE DEF n
  <2> QED BY <2>3 DEF Read, Owns, TypeOK
<1>2. content[i][n + 1] \in Version
  <2>1. \A m \in 0..1 : m + 1 \in 1..2
    OBVIOUS
  <2> HIDE DEF n
  <2>2. n + 1 \in 1..2
    BY <1>1, <2>1
  <2> USE DEF n
  <2> QED BY <1>1, <2>2 DEF TypeOK, Bytes, Blocks
<1>3. buf'[t] = Append(buf[t], content[i][n + 1])
  BY DEF Read, Errors, TypeOK
<1>4. \A k \in 1..n : buf[t][k] = content[i][k]
  BY <1>1 DEF Sees
<1>5. Len(buf'[t]) = n + 1 /\ \A k \in 1..n + 1 : buf'[t][k] = content[i][k]
  BY <1>1, <1>2, <1>3, <1>4
<1> QED BY <1>1, <1>5

\* What a call has seen after a step of its own.
LEMMA VersionsStep ==
  ASSUME TypeOK, Phases, Versions, NEW t \in Opener, Step(t)
  PROVE  Versions'
<1>1. Alone(t) /\ TypeOK' /\ Phases'
  BY StepAlone, PhasesStep
<1>2. UNCHANGED <<inplace, content>>
  BY <1>1 DEF Alone, fs
<1> SUFFICES ASSUME ~inplace
             PROVE  \A u \in Opener : Sees(u)'
  BY <1>2 DEF Versions, Torn
<1>3. \A i \in Inode : ~Torn(content[i])
  BY DEF Versions
<1>4. Sees(t) /\ Owns(t)
  BY DEF Versions, Phases
<1>5. ASSUME NEW u \in Opener \ {t} PROVE Sees(u)'
  BY <1>1, <1>2 DEF Alone, Versions, Sees, View, Torn
<1>6. ASSUME NEW e, Raise(t, e) PROVE Sees(t)'
  BY <1>6, RaiseAlone DEF Sees
<1>7. ASSUME Call(t) \/ ExtractPath(t) \/ Drop(t), ~(\E e \in Errors : Raise(t, e)) PROVE Sees(t)'
  <2>1. pc'[t] \in {"args", "open", "idle"}
    BY <1>7 DEF Call, ExtractPath, Drop, Goto, Errors, TypeOK
  <2> QED BY <2>1 DEF Sees
<1>8. ASSUME OpenFile(t), ~(\E e \in Errors : Raise(t, e)) PROVE Sees(t)'
  <2>1. pc'[t] = "load" /\ buf'[t] = <<>>
    BY <1>4, <1>8 DEF OpenFile, Goto, Errors, TypeOK, Owns
  <2>2. 1..Len(buf'[t]) = {}
    BY <2>1
  <2> QED BY <2>1, <2>2 DEF Sees
<1>9. ASSUME Map(t), ~(\E e \in Errors : Raise(t, e)) PROVE Sees(t)'
  <2>1. pc'[t] = "verify" /\ map'[t] = fd[t] /\ fd[t] \in Inode
    BY <1>4, <1>9 DEF Map, Goto, Errors, TypeOK, Owns
  <2>2. View(t)' = content[fd[t]]
    BY <1>2, <2>1, OpenAssumption DEF View
  <2> QED BY <1>3, <2>1, <2>2 DEF Sees, Torn
<1>10. ASSUME Read(t), ~(\E e \in Errors : Raise(t, e)) PROVE Sees(t)'
  <2> DEFINE n == Len(buf[t])
             i == fd[t]
  <2>1. /\ i \in Inode /\ map[t] = None
        /\ n \in 0..1 /\ Len(buf'[t]) = n + 1
        /\ \A k \in 1..n + 1 : buf'[t][k] = content[i][k]
    BY <1>4, <1>10, ReadGrows
  <2>2. pc[t] = "load"
    BY <1>10 DEF Read
  <2>6. map' = map
    BY <1>10 DEF Read, Errors
  <2>7. CASE Len(buf'[t]) < Blocks
    <3>1. pc'[t] = "load" /\ fd'[t] = i
      BY <1>10, <2>2, <2>7 DEF Read, Errors
    <3> QED BY <1>2, <2>1, <3>1 DEF Sees
  <2>8. CASE ~(Len(buf'[t]) < Blocks)
    <3>1. pc'[t] = "verify"
      BY <1>10, <2>8 DEF Read, Errors, Goto, TypeOK
    <3>2. n + 1 = 2
      <4>1. n \in 0..1 /\ ~(n + 1 < 2)
        BY <2>1, <2>8 DEF Blocks
      <4>2. \A m \in 0..1 : ~(m + 1 < 2) => m + 1 = 2
        OBVIOUS
      <4> HIDE DEF n
      <4> QED BY <4>1, <4>2
    <3>3. \A k \in 1..2 : buf'[t][k] = content[i][k]
      BY <2>1, <3>2
    <3>4. View(t)' = buf'[t]
      BY <2>1, <2>6 DEF View
    <3>5. ~Torn(View(t)')
      BY <1>3, <2>1, <3>3, <3>4 DEF Torn, Blocks
    <3> QED BY <3>1, <3>5 DEF Sees, Torn
  <2> QED BY <2>7, <2>8
<1>11. ASSUME ReadObject(t), ~(\E e \in Errors : Raise(t, e)) PROVE Sees(t)'
  <2>1. PICK v \in Version : buf' = [buf EXCEPT ![t] = Whole(v)]
    BY <1>11 DEF ReadObject, Errors
  <2>2. pc'[t] = "verify" /\ map'[t] = None /\ buf'[t] = Whole(v)
    BY <1>4, <1>11, <2>1 DEF ReadObject, Errors, Goto, TypeOK, Owns
  <2>3. View(t)' = Whole(v)
    BY <2>2 DEF View
  <2> QED BY <2>2, <2>3 DEF Sees, Torn, Whole, Blocks
<1>12. ASSUME Verify(t), ~(\E e \in Errors : Raise(t, e)) PROVE Sees(t)'
  <2>1. View(t)' = View(t)
    BY <1>2, <1>12 DEF Verify, View, Errors
  <2>2. pc[t] = "verify" /\ (Torn(View(t)) \/ View(t)[1] \notin Garbage)
    BY <1>12 DEF Verify, Errors
  <2>3. pc'[t] = "reader"
    BY <1>12 DEF Verify, Errors, Goto, TypeOK
  <2> QED BY <1>4, <2>1, <2>2, <2>3 DEF Sees, Torn
<1>13. Sees(t)'
  BY <1>6, <1>7, <1>8, <1>9, <1>10, <1>11, <1>12 DEF Step
<1> QED BY <1>5, <1>13

Invariant == TypeOK /\ Phases /\ Versions

\* No thread has called, so that no phase claims anything.
LEMMA Initially == Init => Invariant
<1> SUFFICES ASSUME Init PROVE Invariant
  OBVIOUS
<1>1. PICK v \in Version : content = [i \in Inode |-> Whole(v)]
  BY DEF Init
<1>2. Whole(v) \in Bytes /\ ~Torn(Whole(v))
  BY DEF Whole, Bytes, Torn, Blocks
<1>3. <<>> \in Seq(Version) /\ Len(<<>>) <= Blocks
  BY DEF Blocks
<1>4. TypeOK
  BY <1>1, <1>2, <1>3 DEF Init, TypeOK, Label
<1>5. Phases
  BY DEF Init, Phases, Owns
<1>6. Versions
  BY <1>1, <1>2 DEF Init, Versions, Sees, Torn
<1> QED BY <1>4, <1>5, <1>6 DEF Invariant

\* Every step of an opener, and of the processes around it, keeps the invariant.
LEMMA Inductive == Invariant /\ [Next]_vars => Invariant'
<1> SUFFICES ASSUME Invariant, [Next]_vars PROVE Invariant'
  OBVIOUS
<1> USE DEF Invariant
<1>1. CASE Environment
  BY <1>1, EnvironmentStep, EnvironmentVersions
<1>2. ASSUME NEW t \in Opener, Step(t) PROVE Invariant'
  BY <1>2, StepAlone, PhasesStep, VersionsStep
<1>3. CASE UNCHANGED vars
  BY <1>3 DEF vars, fs, TypeOK, Phases, Versions, Owns, Sees, Kind, View, Torn
<1> QED BY <1>1, <1>2, <1>3 DEF Next, Environment, Step

\* Hence it always holds.
LEMMA Invariance == Spec => []Invariant
BY Initially, Inductive, PTL DEF Spec

\* The variables keep their types: no call reads a block past the end of a file or into
\* a buffer that is full.
THEOREM TypeCorrect == Spec => []TypeOK
BY Invariance, PTL DEF Invariant

\* Whatever step of opening fails, the exception leaves nothing behind (NoLeak).
THEOREM NothingLeaks == Spec => []NoLeak
<1>1. Invariant => NoLeak
  BY DEF Invariant, Phases, Owns, NoLeak
<1> QED BY <1>1, Invariance, PTL

\* While the file is only replaced, no reader mixes two versions (OneVersion).
THEOREM ReaderHasOneVersion == Spec => []OneVersion
<1>1. Invariant => OneVersion
  BY DEF Invariant, Versions, Sees, OneVersion
<1> QED BY <1>1, Invariance, PTL

\* A loaded database stays as it is, whatever happens to the file (Frozen).
THEOREM StaysFrozen == Spec => Frozen
<1> DEFINE Kept == \A t \in Opener :
      mode[t] \in {"MODE_FILE", "MODE_MEMORY", "MODE_FD"} /\ pc[t] = "reader" /\ pc'[t] = "reader"
        => View(t)' = View(t)
<1>1. Invariant /\ [Next]_vars => [Kept]_vars
  <2> SUFFICES ASSUME Invariant, Next, NEW t \in Opener,
                      mode[t] \in {"MODE_FILE", "MODE_MEMORY", "MODE_FD"}, pc[t] = "reader", pc'[t] = "reader"
               PROVE  View(t)' = View(t)
    OBVIOUS
  <2>1. Kind(t) # "mmap"
    BY DEF Kind, OpenMode, Mode
  <2>2. map[t] = None
    BY <2>1 DEF Invariant, Phases, Owns
  <2>3. CASE Environment
    <3>1. UNCHANGED <<map, buf>>
      BY <2>3, EnvironmentStep DEF Invariant
    <3> QED BY <2>2, <3>1 DEF View
  <2>4. ASSUME NEW u \in Opener, Step(u), u # t PROVE View(t)' = View(t)
    <3>1. Alone(u)
      BY <2>4, StepAlone DEF Invariant
    <3>2. map'[t] = map[t] /\ buf'[t] = buf[t]
      BY <2>4, <3>1 DEF Alone
    <3> QED BY <2>2, <3>2 DEF View
  <2>5. ~Step(t)
    BY DEF Step, Call, ExtractPath, OpenFile, Map, Read, ReadObject, Verify, Drop, Goto, Invariant, TypeOK
  <2> QED BY <2>3, <2>4, <2>5 DEF Next, Environment, Step
<1> QED BY <1>1, Invariance, PTL DEF Spec, Frozen

-----------------------------------------------------------------------------
\* What AtomicOpen's variables stand for.
AbsPhase == [t \in Opener |-> IF inplace THEN "idle" ELSE AtomicPhase(t)]
AbsGot == [t \in Opener |-> IF inplace THEN None ELSE Got(t)]

\* A step of a call shows in its own entries only.
LEMMA AbstractAlone ==
  ASSUME Invariant, ~inplace, NEW t \in Opener, Step(t)
  PROVE  /\ Current' = Current
         /\ AbsPhase' = [AbsPhase EXCEPT ![t] = AtomicPhase(t)']
         /\ AbsGot' = [AbsGot EXCEPT ![t] = Got(t)']
         /\ AbsPhase[t] = AtomicPhase(t) /\ AbsGot[t] = Got(t)
<1>1. Alone(t)
  BY StepAlone DEF Invariant
<1>2. inplace' = inplace /\ dir' = dir /\ content' = content
  BY <1>1 DEF Alone, fs
<1>3. ASSUME NEW u \in Opener \ {t} PROVE AtomicPhase(u)' = AtomicPhase(u) /\ Got(u)' = Got(u)
  <2>1. /\ pc'[u] = pc[u] /\ mode'[u] = mode[u] /\ fd'[u] = fd[u] /\ map'[u] = map[u]
        /\ buf'[u] = buf[u] /\ outcome'[u] = outcome[u]
    BY <1>1, <1>3 DEF Alone
  <2>2. AtomicPhase(u)' = AtomicPhase(u)
    BY <2>1 DEF AtomicPhase, Kind
  <2>3. Got(u)' = Got(u)
    BY <1>2, <2>1 DEF Got, View
  <2> QED BY <2>2, <2>3
<1>4. Current' = Current
  BY <1>2 DEF Current
<1>5. AbsPhase' = [AbsPhase EXCEPT ![t] = AtomicPhase(t)']
  BY <1>2, <1>3 DEF AbsPhase
<1>6. AbsGot' = [AbsGot EXCEPT ![t] = Got(t)']
  BY <1>2, <1>3 DEF AbsGot
<1>7. AbsPhase[t] = AtomicPhase(t) /\ AbsGot[t] = Got(t)
  BY DEF AbsPhase, AbsGot
<1> QED BY <1>4, <1>5, <1>6, <1>7

\* An exception is Miss or Fail.
LEMMA RaiseRefines ==
  ASSUME Invariant, ~inplace, NEW t \in Opener, Step(t), NEW e \in Errors, Raise(t, e),
         pc[t] \notin {"reader", "raised"},
         e = "FileNotFoundError" => pc[t] = "open" /\ dir = None
  PROVE  Atomic!Next
<1>1. /\ Current' = Current
      /\ AbsPhase' = [AbsPhase EXCEPT ![t] = AtomicPhase(t)']
      /\ AbsGot' = [AbsGot EXCEPT ![t] = Got(t)']
      /\ AbsPhase[t] = AtomicPhase(t) /\ AbsGot[t] = Got(t)
  BY AbstractAlone
<1>2. pc'[t] = "raised" /\ fd'[t] = None /\ map'[t] = None /\ buf'[t] = <<>> /\ outcome'[t] = e
  BY RaiseAlone DEF Invariant, TypeOK, Raise
<1>3. Got(t)' = None
  BY <1>2 DEF Got
<1>4. AtomicPhase(t)' = IF e = "FileNotFoundError" THEN "absent" ELSE "failed"
  BY <1>2 DEF AtomicPhase
<1>5. AtomicPhase(t) \in {"idle", "opening", "handed"}
  BY DEF AtomicPhase
<1>6. CASE e = "FileNotFoundError"
  <2>1. Got(t) = None /\ AtomicPhase(t) = "opening" /\ Current = None
    BY <1>6 DEF Invariant, Phases, Owns, Got, AtomicPhase, Current
  <2>2. AbsGot' = AbsGot
    BY <1>1, <1>3, <2>1 DEF AbsGot
  <2>3. Atomic!Miss(t)
    BY <1>1, <1>4, <1>6, <2>1, <2>2 DEF Atomic!Miss, Atomic!Becomes, AbsPhase, AbsGot
  <2> QED BY <2>3 DEF Atomic!Next
<1>7. CASE e # "FileNotFoundError"
  <2>1. Atomic!Fail(t)
    BY <1>1, <1>3, <1>4, <1>5, <1>7 DEF Atomic!Fail, Atomic!Becomes, AbsPhase, AbsGot
  <2> QED BY <2>1 DEF Atomic!Next
<1> QED BY <1>6, <1>7

\* Every step of a call is one of AtomicOpen or shows nothing.
LEMMA StepRefines ==
  ASSUME Invariant, ~inplace, NEW t \in Opener, Step(t)
  PROVE  Atomic!Next \/ UNCHANGED Atomic!vars
<1>1. /\ Current' = Current
      /\ AbsPhase' = [AbsPhase EXCEPT ![t] = AtomicPhase(t)']
      /\ AbsGot' = [AbsGot EXCEPT ![t] = Got(t)']
      /\ AbsPhase[t] = AtomicPhase(t) /\ AbsGot[t] = Got(t)
  BY AbstractAlone
<1>2. Owns(t) /\ Sees(t) /\ TypeOK
  BY DEF Invariant, Phases, Versions
<1>3. /\ inplace' = inplace /\ content' = content
      /\ pc'[t] \in Label /\ Owns(t)' /\ Sees(t)'
  <2>1. Alone(t) /\ TypeOK' /\ Phases' /\ Versions'
    BY StepAlone, PhasesStep, VersionsStep DEF Invariant
  <2> QED BY <2>1 DEF Alone, fs, Phases, Versions, TypeOK
<1>4. CASE \E e \in Errors : Raise(t, e)
  <2>1. PICK e \in Errors : Raise(t, e)
    BY <1>4
  <2>2. pc'[t] = "raised" /\ outcome'[t] = e
    BY <1>2, <2>1 DEF Raise, Goto, TypeOK
  <2>3. pc[t] \notin {"reader", "raised"}
    BY <1>2, <2>2 DEF Step, Call, ExtractPath, OpenFile, Map, Read, ReadObject, Verify, Drop, Goto, TypeOK
  <2>4. e = "FileNotFoundError" => pc[t] = "open" /\ dir = None
    BY <1>2, <2>2 DEF Step, Call, ExtractPath, OpenFile, Map, Read, ReadObject, Verify, Drop, Goto, Raise, TypeOK
  <2> QED BY <2>1, <2>3, <2>4, RaiseRefines
<1> DEFINE NoRaise == ~(\E e \in Errors : Raise(t, e))
<1>5. ASSUME AtomicPhase(t)' = AtomicPhase(t), Got(t)' = Got(t) PROVE UNCHANGED Atomic!vars
  <2>1. AbsPhase' = AbsPhase /\ AbsGot' = AbsGot
    BY <1>1, <1>5 DEF AbsPhase, AbsGot
  <2> QED BY <1>1, <2>1 DEF Atomic!vars, AbsPhase, AbsGot
<1>6. ASSUME Got(t)' = Got(t) PROVE AbsGot' = AbsGot
  BY <1>1, <1>6 DEF AbsGot
<1>7. ASSUME AtomicPhase(t)' = AtomicPhase(t) PROVE AbsPhase' = AbsPhase
  BY <1>1, <1>7 DEF AbsPhase
<1>8. ASSUME Call(t), NoRaise PROVE Atomic!Begin(t)
  <2>1. pc[t] = "idle" /\ pc'[t] = "args" /\ UNCHANGED <<fd, map, buf>>
    BY <1>2, <1>8 DEF Call, Goto, Errors, TypeOK
  <2>2. Got(t)' = Got(t)
    BY <1>2, <2>1 DEF Owns, Got
  <2>3. AtomicPhase(t) = "idle" /\ AtomicPhase(t)' \in {"opening", "handed"}
    BY <2>1 DEF AtomicPhase
  <2> QED BY <1>1, <1>6, <2>2, <2>3 DEF Atomic!Begin, Atomic!Becomes, AbsPhase, AbsGot
<1>9. ASSUME ExtractPath(t), NoRaise PROVE UNCHANGED Atomic!vars
  <2>1. pc[t] = "args" /\ pc'[t] = "open" /\ UNCHANGED <<mode, fd, map, buf>>
    BY <1>2, <1>9 DEF ExtractPath, Goto, Errors, TypeOK
  <2>2. Got(t)' = Got(t)
    BY <1>2, <2>1 DEF Owns, Got
  <2>3. AtomicPhase(t)' = AtomicPhase(t)
    BY <2>1 DEF AtomicPhase, Kind
  <2> QED BY <1>5, <2>2, <2>3
<1>10. ASSUME OpenFile(t), NoRaise PROVE Atomic!Take(t)
  <2>1. /\ pc[t] = "open" /\ pc'[t] = "load" /\ dir \in Inode /\ fd'[t] = dir
        /\ UNCHANGED <<mode, map, buf>>
    BY <1>2, <1>10 DEF OpenFile, Goto, Errors, TypeOK
  <2>2. Got(t) = None
    BY <1>2, <2>1 DEF Owns, Got
  <2>3. content[dir][1] \in Version
    BY <1>2, <2>1 DEF TypeOK, Bytes, Blocks
  <2>4. Current = content[dir][1] /\ Current # None
    BY <2>1, <2>3, OpenAssumption DEF Current
  <2>5. Got(t)' = Current
    BY <1>3, <2>1, <2>4, OpenAssumption DEF Got
  <2>6. AtomicPhase(t) = "opening" /\ AtomicPhase(t)' = AtomicPhase(t)
    BY <1>2, <2>1 DEF AtomicPhase, Owns, Kind
  <2> QED BY <1>1, <1>7, <2>2, <2>4, <2>5, <2>6 DEF Atomic!Take, AbsPhase, AbsGot
<1>11. ASSUME Map(t), NoRaise PROVE UNCHANGED Atomic!vars
  <2>1. /\ pc[t] = "load" /\ pc'[t] = "verify" /\ fd[t] \in Inode /\ map'[t] = fd[t] /\ fd'[t] = None
        /\ mode' = mode
    BY <1>2, <1>11 DEF Map, Goto, Errors, TypeOK, Owns
  <2>2. Got(t) = content[fd[t]][1]
    BY <2>1, OpenAssumption DEF Got
  <2>3. Got(t)' = content[fd[t]][1]
    BY <1>3, <2>1, OpenAssumption DEF Got, View
  <2>4. AtomicPhase(t)' = AtomicPhase(t)
    BY <2>1 DEF AtomicPhase, Kind
  <2> QED BY <1>5, <2>2, <2>3, <2>4
<1>12. ASSUME Read(t), NoRaise PROVE UNCHANGED Atomic!vars
  <2>1. pc[t] = "load" /\ fd[t] \in Inode /\ map[t] = None /\ UNCHANGED <<mode, map>>
    BY <1>2, <1>12 DEF Read, Errors, TypeOK, Owns
  <2>2. Got(t) = content[fd[t]][1]
    BY <2>1, OpenAssumption DEF Got
  <2>3. CASE Len(buf'[t]) < Blocks
    <3>1. pc' = pc /\ fd' = fd
      BY <1>12, <2>3 DEF Read, Errors
    <3>2. Got(t)' = content[fd[t]][1]
      BY <1>3, <2>1, <3>1, OpenAssumption DEF Got
    <3>3. AtomicPhase(t)' = AtomicPhase(t)
      BY <2>1, <3>1 DEF AtomicPhase, Kind
    <3> QED BY <1>5, <2>2, <3>2, <3>3
  <2>4. CASE ~(Len(buf'[t]) < Blocks)
    <3>1. pc'[t] = "verify" /\ fd'[t] = None
      BY <1>2, <1>12, <2>4 DEF Read, Errors, Goto, TypeOK
    <3>2. buf'[t] # <<>>
      BY <2>4 DEF Blocks
    <3>3. buf'[t][1] = content[fd[t]][1]
      <4>1. /\ Len(buf[t]) \in 0..1
            /\ \A k \in 1..Len(buf[t]) + 1 : buf'[t][k] = content[fd[t]][k]
        BY <1>2, <1>12, ReadGrows
      <4>2. \A m \in 0..1 : 1 \in 1..m + 1
        OBVIOUS
      <4> QED BY <4>1, <4>2
    <3>4. Got(t)' = buf'[t][1]
      BY <2>1, <3>1, <3>2 DEF Got, View
    <3>5. AtomicPhase(t)' = AtomicPhase(t)
      BY <2>1, <3>1 DEF AtomicPhase, Kind
    <3> QED BY <1>5, <2>2, <3>3, <3>4, <3>5
  <2> QED BY <2>3, <2>4
<1>13. ASSUME ReadObject(t), NoRaise PROVE Atomic!Receive(t)
  <2>1. PICK v \in Version : buf' = [buf EXCEPT ![t] = Whole(v)]
    BY <1>13 DEF ReadObject, Errors
  <2>2. /\ pc[t] = "args" /\ pc'[t] = "verify" /\ Kind(t) = "fd"
        /\ fd' = fd /\ map' = map /\ mode' = mode /\ buf'[t] = Whole(v)
    BY <1>2, <1>13, <2>1 DEF ReadObject, Errors, Goto, TypeOK
  <2>3. fd[t] = None /\ map[t] = None /\ Got(t) = None
    BY <1>2, <2>2 DEF Owns, Got
  <2>4. Whole(v) # <<>> /\ Whole(v)[1] = v
    <3>1. Len(Whole(v)) = 2
      BY WholeLength
    <3>2. Whole(v) # <<>>
      BY <3>1
    <3> QED BY <3>2 DEF Whole, Blocks
  <2>5. Got(t)' = v
    BY <2>2, <2>3, <2>4 DEF Got, View
  <2>6. AtomicPhase(t) = "handed" /\ AtomicPhase(t)' = AtomicPhase(t)
    BY <2>2 DEF AtomicPhase, Kind
  <2> QED BY <1>1, <1>7, <2>3, <2>5, <2>6 DEF Atomic!Receive, AbsPhase, AbsGot
<1>14. ASSUME Verify(t), NoRaise PROVE Atomic!Succeed(t)
  <2>1. /\ pc[t] = "verify" /\ pc'[t] = "reader" /\ UNCHANGED <<mode, fd, map, buf>>
    BY <1>2, <1>14 DEF Verify, Errors, Goto, TypeOK
  <2>2. View(t)' = View(t)
    BY <1>3, <2>1 DEF View
  <2>3. Got(t)' = Got(t)
    BY <1>2, <1>3, <2>1, <2>2 DEF Owns, Got
  <2>4. Got(t) # None
    <3>1. CASE map[t] # None
      <4>1. content[map[t]][1] \in Version
        BY <1>2, <3>1 DEF TypeOK, Bytes, Blocks
      <4>2. Got(t) = content[map[t]][1]
        BY <1>2, <2>1, <3>1 DEF Owns, Got, View
      <4> QED BY <4>1, <4>2, OpenAssumption
    <3>2. CASE map[t] = None
      <4>1. buf[t] \in Seq(Version) /\ Len(buf[t]) = 2
        BY <1>2, <2>1, <3>2 DEF TypeOK, Owns, Blocks
      <4>2. buf[t] # <<>> /\ buf[t][1] \in Version
        BY <4>1
      <4>3. Got(t) = buf[t][1]
        BY <1>2, <2>1, <3>2, <4>2 DEF Owns, Got, View
      <4> QED BY <4>2, <4>3, OpenAssumption
    <3> QED BY <3>1, <3>2
  <2>5. AtomicPhase(t) \in {"opening", "handed"} /\ AtomicPhase(t)' = "open"
    BY <2>1 DEF AtomicPhase
  <2> QED BY <1>1, <1>6, <2>3, <2>4, <2>5 DEF Atomic!Succeed, Atomic!Becomes, AbsPhase, AbsGot
<1>15. ASSUME Drop(t) PROVE Atomic!Finish(t)
  <2>1. /\ pc[t] \in {"reader", "raised"} /\ pc'[t] = "idle" /\ fd' = fd
        /\ map'[t] = None /\ buf'[t] = <<>>
    BY <1>2, <1>15 DEF Drop, Goto, TypeOK
  <2>2. Got(t)' = None
    BY <1>2, <2>1 DEF Owns, Got
  <2>3. AtomicPhase(t) \in {"absent", "failed", "open"} /\ AtomicPhase(t)' = "idle"
    BY <2>1 DEF AtomicPhase
  <2> QED BY <1>1, <2>2, <2>3 DEF Atomic!Finish, Atomic!Becomes, AbsPhase, AbsGot
<1> QED BY <1>4, <1>8, <1>9, <1>10, <1>11, <1>12, <1>13, <1>14, <1>15 DEF Step, Atomic!Next

\* What others do to the file is Publish, and no call has another version for it.
LEMMA EnvironmentRefines ==
  ASSUME Invariant, ~inplace, Environment
  PROVE  Atomic!Next \/ UNCHANGED Atomic!vars
<1>1. TypeOK /\ Phases /\ UNCHANGED <<inplace, pc, mode, fd, map, buf, outcome>>
  BY EnvironmentStep DEF Invariant
<1>2. ASSUME NEW t \in Opener, NEW j \in Inode, fd[t] = j \/ map[t] = j
      PROVE  content'[j] = content[j]
  <2>1. CASE Replace
    BY <1>1, <1>2, <2>1 DEF Replace, InUse, TypeOK
  <2>2. CASE Unlink
    BY <2>2 DEF Unlink
  <2>3. CASE Overwrite
    BY <2>3 DEF Overwrite
  <2> QED BY <2>1, <2>2, <2>3 DEF Environment
<1>3. ASSUME NEW t \in Opener PROVE Got(t)' = Got(t)
  <2>1. fd[t] # None => content'[fd[t]] = content[fd[t]]
    BY <1>1, <1>2 DEF TypeOK
  <2>2. map[t] # None => content'[map[t]] = content[map[t]]
    BY <1>1, <1>2 DEF TypeOK
  <2> QED BY <1>1, <2>1, <2>2 DEF Got, View
<1>4. AbsGot' = AbsGot
  BY <1>1, <1>3 DEF AbsGot
<1>5. AbsPhase' = AbsPhase
  BY <1>1 DEF AbsPhase, AtomicPhase, Kind
<1>6. Current' \in Version \cup {None}
  <2>1. content' \in [Inode -> Bytes] /\ dir' \in Inode \cup {None}
    BY <1>1, EnvironmentStep DEF TypeOK
  <2> QED BY <2>1 DEF Current, Bytes, Blocks
<1>7. CASE Current' = Current
  BY <1>4, <1>5, <1>7 DEF Atomic!vars, AbsPhase, AbsGot
<1>8. CASE Current' # Current
  <2>1. Atomic!Publish
    BY <1>4, <1>5, <1>6, <1>8 DEF Atomic!Publish, AbsPhase, AbsGot
  <2> QED BY <2>1 DEF Atomic!Next
<1> QED BY <1>7, <1>8

\* Opening is atomic with respect to the replacement of the file (ImplementsAtomicOpen).
THEOREM RefinesAtomicOpen == Spec => ImplementsAtomicOpen
<1>1. Init => Atomic!Init
  <2> SUFFICES ASSUME Init PROVE Atomic!Init
    OBVIOUS
  <2>1. AbsPhase = [t \in Opener |-> "idle"]
    BY DEF Init, AbsPhase, AtomicPhase
  <2>2. AbsGot = [t \in Opener |-> None]
    BY DEF Init, AbsGot, Got
  <2>3. Current \in Version \cup {None}
    BY DEF Init, Current, Whole, Blocks
  <2> QED BY <2>1, <2>2, <2>3 DEF Atomic!Init, AbsPhase, AbsGot
<1>2. Invariant /\ [Next]_vars => [Atomic!Next]_(Atomic!vars)
  <2> SUFFICES ASSUME Invariant, [Next]_vars PROVE Atomic!Next \/ UNCHANGED Atomic!vars
    OBVIOUS
  <2>1. CASE UNCHANGED vars
    BY <2>1 DEF vars, fs, Atomic!vars, Current, AtomicPhase, Got, Kind, View
  <2>2. CASE Next /\ inplace
    <3>1. inplace' = inplace
      <4>1. CASE Environment
        BY <4>1, EnvironmentStep DEF Invariant
      <4>2. ASSUME NEW t \in Opener, Step(t) PROVE inplace' = inplace
        BY <4>2, StepAlone DEF Invariant, Alone, fs
      <4> QED BY <2>2, <4>1, <4>2 DEF Next, Environment, Step
    <3> QED BY <2>2, <3>1 DEF Atomic!vars, Current
  <2>3. CASE Next /\ ~inplace
    <3>1. CASE Environment
      BY <2>3, <3>1, EnvironmentRefines
    <3>2. ASSUME NEW t \in Opener, Step(t) PROVE Atomic!Next \/ UNCHANGED Atomic!vars
      BY <2>3, <3>2, StepRefines
    <3> QED BY <2>3, <3>1, <3>2 DEF Next, Environment, Step
  <2> QED BY <2>1, <2>2, <2>3
<1> QED BY <1>1, <1>2, Invariance, PTL DEF Spec, ImplementsAtomicOpen, Atomic!Spec
=============================================================================
