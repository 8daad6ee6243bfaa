------------------------ MODULE PageArtifacts_proofs ------------------------
EXTENDS PageArtifacts, TLAPS

\* What a call's locals are made of.
LEMMA CallType ==
    ASSUME TypeOK, NEW c \in Calls
    PROVE  /\ call[c].pc \in PCs
           /\ call[c].kind \in Kinds
           /\ call[c].ok \in BOOLEAN
           /\ call[c].half \in [Kinds -> Files]
  BY DEF TypeOK, Locals

\* The locals that the actions write.
LEMMA GotoType ==
    ASSUME TypeOK, NEW c \in Calls, NEW pc \in PCs, NEW kind \in Kinds
    PROVE  /\ Goto(c, pc, kind) \in Locals
           /\ [Goto(c, pc, kind) EXCEPT !.ok = FALSE] \in Locals
           /\ \A k \in Kinds, f \in Files :
                 [Goto(c, pc, kind) EXCEPT !.half[k] = f] \in Locals
  BY CallType DEF Goto, TypeOK, Locals

\* Writing an object under its staging key or its final key.
LEMMA RemoteType ==
    ASSUME TypeOK, NEW c \in Calls, NEW k \in Kinds, NEW v \in Contents
    PROVE  /\ [remote EXCEPT ![c][k].staged = v] \in [Calls -> [Kinds -> Remote]]
           /\ [remote EXCEPT ![c][k].final = v] \in [Calls -> [Kinds -> Remote]]
<1>1. remote[c][k] \in Remote
  BY DEF TypeOK
<1>2. /\ [remote[c][k] EXCEPT !.staged = v] \in Remote
      /\ [remote[c][k] EXCEPT !.final = v] \in Remote
  BY <1>1 DEF Remote
<1>. QED
  BY <1>2 DEF TypeOK

\* What a staging file holds, or an object.
LEMMA ContentType ==
    ASSUME TypeOK
    PROVE  /\ \A k \in Kinds : stage[k] # NoCall => bytes[k][stage[k]] \in Contents
           /\ \A c \in Calls, k \in Kinds : remote[c][k].staged \in Contents
           /\ "absent" \in Contents
  BY DEF TypeOK, Files, Remote, Contents

\* Every action writes values of the declared types.
LEMMA TypeStep ==
    ASSUME IInv, NEW c \in Calls, Persist(c) \/ Fail(c), UNCHANGED backend
    PROVE  TypeOK'
<1>1. CASE Begin(c)
  BY <1>1, CallType, GotoType DEF Begin, Becomes, files, IInv, TypeOK, Kinds, PCs
<1>2. CASE OpenStaged(c)
  <2>. DEFINE k == call[c].kind
              file == IF stage[k] = NoCall THEN c ELSE stage[k]
  <2>1. k \in Kinds /\ file \in Calls
    BY CallType DEF IInv, TypeOK, Files
  <2>2. call' \in [Calls -> Locals]
    BY <1>2, <2>1, GotoType DEF OpenStaged, Becomes, IInv, TypeOK, PCs, Files
  <2>3. stage' \in [Kinds -> Files] /\ bytes' \in [Kinds -> [Calls -> Contents]]
    BY <1>2, <2>1 DEF OpenStaged, IInv, TypeOK, Files, Contents
  <2>. QED
    BY <1>2, <2>2, <2>3 DEF OpenStaged, past, IInv, TypeOK
<1>3. CASE WriteStaged(c)
  BY <1>3, CallType, GotoType DEF WriteStaged, Written, Becomes, past, IInv, TypeOK, Files,
     Kinds, Contents, PCs
<1>4. CASE StagedIsGone(c)
  BY <1>4, CallType, GotoType DEF StagedIsGone, Abandon, Becomes, files, past, IInv, TypeOK,
     Kinds, PCs
<1>5. CASE MoveStaged(c)
  BY <1>5, CallType, GotoType DEF MoveStaged, Becomes, past, IInv, TypeOK, Files, PCs
<1>6. CASE CheckStaged(c)
  BY <1>6, CallType, GotoType DEF CheckStaged, Becomes, files, past, IInv, TypeOK, PCs
<1>7. CASE UploadStaged(c)
  <2>1. PICK k \in Kinds : Upload(c, k) /\ call' = [call EXCEPT ![c] = Goto(c, "copying", k)]
    BY <1>7 DEF UploadStaged, Becomes
  <2>2. call' \in [Calls -> Locals]
    BY <2>1, GotoType DEF IInv, TypeOK, PCs
  <2>3. remote' \in [Calls -> [Kinds -> Remote]]
    BY <2>1, RemoteType, ContentType DEF Upload, IsFile, IInv
  <2>. QED
    BY <2>1, <2>2, <2>3 DEF Upload, files, past, IInv, TypeOK
<1>8. CASE UploadTorn(c)
  <2>1. PICK k \in Kinds : Upload(c, k) /\ call' = [call EXCEPT ![c] = [Goto(c, "tidying", k) EXCEPT !.ok = FALSE]]
    BY <1>8 DEF UploadTorn, Becomes
  <2>2. call' \in [Calls -> Locals]
    BY <2>1, GotoType DEF IInv, TypeOK, PCs
  <2>3. remote' \in [Calls -> [Kinds -> Remote]]
    BY <2>1, RemoteType, ContentType DEF Upload, IsFile, IInv
  <2>. QED
    BY <2>1, <2>2, <2>3 DEF Upload, files, past, IInv, TypeOK
<1>9. CASE StagedIsLost(c)
  BY <1>9, CallType, GotoType DEF StagedIsLost, Becomes, files, past, IInv, TypeOK, PCs
<1>10. CASE CopyRemote(c)
  <2>1. call' \in [Calls -> Locals]
    BY <1>10, CallType, GotoType DEF CopyRemote, At, Becomes, IInv, TypeOK, Kinds, PCs
  <2>2. remote' \in [Calls -> [Kinds -> Remote]]
    BY <1>10, CallType, RemoteType, ContentType DEF CopyRemote, At, files, IInv
  <2>. QED
    BY <1>10, <2>1, <2>2 DEF CopyRemote, files, past, IInv, TypeOK
<1>11. CASE TidyUp(c)
  <2>1. call' \in [Calls -> Locals]
    BY <1>11, CallType, GotoType DEF TidyUp, AfterPut, Abandon, At, Becomes, IInv, TypeOK,
       Kinds, PCs
  <2>2. remote' \in [Calls -> [Kinds -> Remote]]
    BY <1>11, CallType, RemoteType, ContentType DEF TidyUp, IInv
  <2>3. stage' \in [Kinds -> Files]
    BY <1>11 DEF TidyUp, IInv, TypeOK, Files
  <2>. QED
    BY <1>11, <2>1, <2>2, <2>3 DEF TidyUp, past, IInv, TypeOK
<1>12. CASE Commit(c)
  BY <1>12, CallType, GotoType DEF Commit, Inserted, Becomes, files, past, IInv, TypeOK,
     Files, Kinds, PCs
<1>13. CASE UnlinkStaged(c)
  BY <1>13, CallType, GotoType DEF UnlinkStaged, Becomes, past, IInv, TypeOK, Files, Kinds,
     PCs
<1>14. CASE FileFails(c)
  BY <1>14, CallType, GotoType DEF FileFails, Strike, Abandon, Becomes, files, IInv, TypeOK,
     Kinds, PCs
<1>15. CASE UploadFails(c)
  <2>1. call' \in [Calls -> Locals]
    BY <1>15, CallType, GotoType DEF UploadFails, Becomes, IInv, TypeOK, PCs
  <2>2. PICK v \in {"absent", bytes[call[c].kind][stage[call[c].kind]]} :
           remote' = [remote EXCEPT ![c][call[c].kind].staged = v]
    BY <1>15 DEF UploadFails
  <2>3. v \in Contents
    BY <1>15, <2>2, CallType, ContentType DEF UploadFails, IsFile, IInv
  <2>4. remote' \in [Calls -> [Kinds -> Remote]]
    BY <2>2, <2>3, CallType, RemoteType DEF IInv
  <2>. QED
    BY <1>15, <2>1, <2>4 DEF UploadFails, Strike, files, IInv, TypeOK
<1>16. CASE CopyFails(c)
  <2>1. call' \in [Calls -> Locals]
    BY <1>16, CallType, GotoType DEF CopyFails, Becomes, IInv, TypeOK, PCs
  <2>2. PICK v \in {"absent", remote[c][call[c].kind].staged} :
           remote' = [remote EXCEPT ![c][call[c].kind].final = v]
    BY <1>16 DEF CopyFails
  <2>3. v \in Contents
    BY <2>2, CallType, ContentType DEF IInv
  <2>4. remote' \in [Calls -> [Kinds -> Remote]]
    BY <2>2, <2>3, CallType, RemoteType DEF IInv
  <2>. QED
    BY <1>16, <2>1, <2>4 DEF CopyFails, Strike, files, IInv, TypeOK
<1>17. CASE DeleteFails(c)
  BY <1>17, CallType, GotoType DEF DeleteFails, Strike, AfterPut, Abandon, Becomes, IInv,
     TypeOK, Files, Kinds, PCs
<1>18. CASE CommitFails(c)
  BY <1>18, CallType, GotoType DEF CommitFails, Strike, Inserted, Abandon, Becomes, files,
     IInv, TypeOK, Files, Kinds, PCs
<1>19. CASE Exit(c)
  BY <1>19, CallType, GotoType DEF Exit, files, IInv, TypeOK
<1>. QED
  BY <1>1, <1>2, <1>3, <1>4, <1>5, <1>6, <1>7, <1>8, <1>9, <1>10, <1>11, <1>12, <1>13,
     <1>14, <1>15, <1>16, <1>17, <1>18, <1>19 DEF Persist, Fail

\* Whoever opens a file under a name answers for its being empty.
LEMMA FilesStep ==
    ASSUME IInv, NEW c \in Calls, Persist(c) \/ Fail(c)
    PROVE  FilesOK'
<1>1. CASE Begin(c)
  BY <1>1 DEF Begin, Goto, Becomes, files, IInv, TypeOK, Locals, FilesOK
<1>2. CASE OpenStaged(c)
  <2>. DEFINE k == call[c].kind
              file == IF stage[k] = NoCall THEN c ELSE stage[k]
  <2>1. k \in Kinds /\ file \in Calls
    BY CallType DEF IInv, TypeOK, Files
  <2>2. /\ stage' = [stage EXCEPT ![k] = file]
        /\ bytes' = [bytes EXCEPT ![k][file] = "empty"]
        /\ derived' = derived
    BY <1>2 DEF OpenStaged
  <2>3. /\ \A d \in Calls \ {c} : call'[d] = call[d]
        /\ call'[c].half = [call[c].half EXCEPT ![k] = file]
    BY <1>2, CallType DEF OpenStaged, Becomes, Goto, IInv, TypeOK, Locals
  <2>4. call[c].half[k] = NoCall
    BY <1>2, <2>1 DEF OpenStaged, At, IInv, HalvesOK, FailuresOK
  <2>. HIDE DEF k, file
  <2>5. ASSUME NEW n \in Kinds, NEW i \in Calls, bytes'[n][i] = "empty"
        PROVE  \E d \in Calls : call'[d].half[n] = i
    <3>1. CASE n = k /\ i = file
      BY <3>1, <2>1, <2>3, CallType DEF IInv
    <3>2. CASE ~(n = k /\ i = file)
      <4>1. bytes[n][i] = "empty"
        BY <2>1, <2>2, <2>5, <3>2 DEF IInv, TypeOK
      <4>2. PICK d \in Calls : call[d].half[n] = i
        BY <4>1 DEF IInv, FilesOK
      <4>3. ~(n = k /\ d = c)
        BY <4>2, <2>4, NoCallAssumption
      <4>. QED
        BY <4>2, <4>3, <2>1, <2>3, CallType DEF IInv
    <3>. QED
      BY <3>1, <3>2
  <2>6. ASSUME NEW n \in Kinds
        PROVE  /\ stage'[n] # NoCall => bytes'[n][stage'[n]] # "absent"
               /\ \A d \in Calls : derived'[d][n] # NoCall => bytes'[n][derived'[d][n]] # "absent"
    <3>1. \A i \in Calls : bytes'[n][i] \in {bytes[n][i], "empty"}
      BY <2>1, <2>2 DEF IInv, TypeOK
    <3>2. bytes'[k][file] = "empty"
      BY <2>1, <2>2 DEF IInv, TypeOK
    <3>3. stage'[n] = IF n = k THEN file ELSE stage[n]
      BY <2>2 DEF IInv, TypeOK
    <3>. QED
      BY <2>1, <2>2, <3>1, <3>2, <3>3 DEF IInv, TypeOK, FilesOK, Files
  <2>. QED
    BY <2>5, <2>6 DEF FilesOK
<1>3. CASE WriteStaged(c)
  BY <1>3, NoCallAssumption DEF WriteStaged, Written, Goto, Becomes, IInv, TypeOK, Locals,
     FilesOK
<1>4. CASE StagedIsGone(c)
  BY <1>4 DEF StagedIsGone, Abandon, Goto, Becomes, files, IInv, TypeOK, Locals, FilesOK
<1>5. CASE MoveStaged(c)
  BY <1>5 DEF MoveStaged, Goto, Becomes, IInv, TypeOK, Locals, FilesOK
<1>6. CASE CheckStaged(c)
  BY <1>6 DEF CheckStaged, Goto, Becomes, files, IInv, TypeOK, Locals, FilesOK
<1>7. CASE UploadStaged(c)
  BY <1>7 DEF UploadStaged, Upload, Goto, Becomes, files, IInv, TypeOK, Locals, FilesOK
<1>8. CASE UploadTorn(c)
  BY <1>8 DEF UploadTorn, Upload, Goto, Becomes, files, IInv, TypeOK, Locals, FilesOK
<1>9. CASE StagedIsLost(c)
  BY <1>9 DEF StagedIsLost, Goto, Becomes, files, IInv, TypeOK, Locals, FilesOK
<1>10. CASE CopyRemote(c)
  BY <1>10 DEF CopyRemote, Goto, Becomes, files, IInv, TypeOK, Locals, FilesOK
<1>11. CASE TidyUp(c)
  BY <1>11 DEF TidyUp, AfterPut, Abandon, Goto, Becomes, IInv, TypeOK, Locals, FilesOK
<1>12. CASE Commit(c)
  BY <1>12 DEF Commit, Goto, Becomes, files, IInv, TypeOK, Locals, FilesOK
<1>13. CASE UnlinkStaged(c)
  BY <1>13 DEF UnlinkStaged, Goto, Becomes, IInv, TypeOK, Locals, FilesOK
<1>14. CASE FileFails(c)
  BY <1>14 DEF FileFails, Abandon, Goto, Becomes, files, IInv, TypeOK, Locals, FilesOK
<1>15. CASE UploadFails(c)
  BY <1>15 DEF UploadFails, Goto, Becomes, files, IInv, TypeOK, Locals, FilesOK
<1>16. CASE CopyFails(c)
  BY <1>16 DEF CopyFails, Goto, Becomes, files, IInv, TypeOK, Locals, FilesOK
<1>17. CASE DeleteFails(c)
  BY <1>17 DEF DeleteFails, AfterPut, Abandon, Goto, Becomes, IInv, TypeOK, Locals, FilesOK
<1>18. CASE CommitFails(c)
  BY <1>18 DEF CommitFails, Abandon, Goto, Becomes, files, IInv, TypeOK, Locals, FilesOK
<1>19. CASE Exit(c)
  BY <1>19 DEF Exit, files, IInv, TypeOK, FilesOK
<1>. QED
  BY <1>1, <1>2, <1>3, <1>4, <1>5, <1>6, <1>7, <1>8, <1>9, <1>10, <1>11, <1>12, <1>13,
     <1>14, <1>15, <1>16, <1>17, <1>18, <1>19 DEF Persist, Fail

\* A half written file belongs to a writer or to a call that goes wrong.
LEMMA HalvesStep ==
    ASSUME IInv, NEW c \in Calls, Persist(c) \/ Fail(c)
    PROVE  HalvesOK'
<1>1. CASE Begin(c)
  BY <1>1 DEF Begin, At, Goto, Becomes, IInv, TypeOK, HalvesOK
<1>2. CASE OpenStaged(c)
  BY <1>2 DEF OpenStaged, Goto, Becomes, IInv, TypeOK, HalvesOK
<1>3. CASE WriteStaged(c)
  BY <1>3 DEF WriteStaged, Goto, Becomes, IInv, TypeOK, Locals, HalvesOK
<1>4. CASE StagedIsGone(c)
  BY <1>4 DEF StagedIsGone, Abandon, Becomes, IInv, TypeOK, HalvesOK
<1>5. CASE MoveStaged(c)
  BY <1>5 DEF MoveStaged, At, Goto, Becomes, IInv, TypeOK, HalvesOK
<1>6. CASE CheckStaged(c)
  BY <1>6 DEF CheckStaged, At, Goto, Becomes, IInv, TypeOK, HalvesOK
<1>7. CASE UploadStaged(c)
  BY <1>7 DEF UploadStaged, Upload, At, Goto, Becomes, IInv, TypeOK, HalvesOK
<1>8. CASE UploadTorn(c)
  BY <1>8 DEF UploadTorn, Becomes, IInv, TypeOK, HalvesOK
<1>9. CASE StagedIsLost(c)
  BY <1>9 DEF StagedIsLost, Becomes, IInv, TypeOK, HalvesOK
<1>10. CASE CopyRemote(c)
  BY <1>10 DEF CopyRemote, At, Goto, Becomes, IInv, TypeOK, HalvesOK
<1>11. CASE TidyUp(c)
  BY <1>11 DEF TidyUp, AfterPut, Abandon, At, Goto, Becomes, IInv, TypeOK, HalvesOK
<1>12. CASE Commit(c)
  BY <1>12 DEF Commit, At, Goto, Becomes, IInv, TypeOK, HalvesOK
<1>13. CASE UnlinkStaged(c)
  BY <1>13 DEF UnlinkStaged, At, Goto, Becomes, IInv, TypeOK, HalvesOK
<1>14. CASE FileFails(c)
  BY <1>14 DEF FileFails, Abandon, Becomes, IInv, TypeOK, HalvesOK
<1>15. CASE UploadFails(c)
  BY <1>15 DEF UploadFails, Becomes, IInv, TypeOK, HalvesOK
<1>16. CASE CopyFails(c)
  BY <1>16 DEF CopyFails, Becomes, IInv, TypeOK, HalvesOK
<1>17. CASE DeleteFails(c)
  BY <1>17 DEF DeleteFails, AfterPut, Abandon, At, Goto, Becomes, IInv, TypeOK, HalvesOK
<1>18. CASE CommitFails(c)
  BY <1>18 DEF CommitFails, Abandon, Becomes, IInv, TypeOK, HalvesOK
<1>19. CASE Exit(c)
  BY <1>19 DEF Exit, IInv, TypeOK, HalvesOK
<1>. QED
  BY <1>1, <1>2, <1>3, <1>4, <1>5, <1>6, <1>7, <1>8, <1>9, <1>10, <1>11, <1>12, <1>13,
     <1>14, <1>15, <1>16, <1>17, <1>18, <1>19 DEF Persist, Fail

\* A call goes wrong by an error, or because it has met another one: LoneOK rules out
\* that it finds its file gone or torn otherwise.
LEMMA FailuresStep ==
    ASSUME IInv, NEW c \in Calls, Persist(c) \/ Fail(c)
    PROVE  FailuresOK'
<1>1. CASE Begin(c)
  BY <1>1 DEF Begin, At, Goto, Becomes, IInv, TypeOK, FailuresOK
<1>2. CASE OpenStaged(c)
  BY <1>2 DEF OpenStaged, At, Goto, Becomes, past, IInv, TypeOK, FailuresOK
<1>3. CASE WriteStaged(c)
  BY <1>3 DEF WriteStaged, At, Goto, Becomes, past, IInv, TypeOK, FailuresOK
<1>4. CASE StagedIsGone(c)
  <2>1. call[c].ok /\ UsesFiles(c) /\ call[c].kind \in Waiting(c)
    BY <1>4, CallType DEF StagedIsGone, At, IInv, FailuresOK, UsesFiles, Outside, Waiting,
       Kinds
  <2>2. c \in met
    BY <1>4, <2>1 DEF StagedIsGone, IsFile, IInv, LoneOK
  <2>3. \A k \in Kinds : call[c].half[k] = NoCall
    BY <1>4, <2>1 DEF StagedIsGone, At, IInv, HalvesOK
  <2>. QED
    BY <1>4, <2>2, <2>3 DEF StagedIsGone, Abandon, At, Goto, Becomes, past, IInv, TypeOK,
       Locals, FailuresOK
<1>5. CASE MoveStaged(c)
  BY <1>5 DEF MoveStaged, Goto, Becomes, past, IInv, TypeOK, FailuresOK
<1>6. CASE CheckStaged(c)
  BY <1>6 DEF CheckStaged, At, Goto, Becomes, past, IInv, TypeOK, FailuresOK
<1>7. CASE UploadStaged(c)
  BY <1>7 DEF UploadStaged, Upload, At, Goto, Becomes, past, IInv, TypeOK, FailuresOK
<1>8. CASE UploadTorn(c)
  <2>1. call[c].ok /\ UsesFiles(c) /\ call[c].kind \in Waiting(c)
    BY <1>8, CallType DEF UploadTorn, Upload, At, IInv, FailuresOK, UsesFiles, Outside,
       Waiting, Kinds
  <2>2. c \in met
    BY <1>8, <2>1 DEF UploadTorn, Upload, SizeAgrees, IInv, LoneOK
  <2>3. \A k \in Kinds : call[c].half[k] = NoCall
    BY <1>8, <2>1 DEF UploadTorn, Upload, At, IInv, HalvesOK
  <2>. QED
    BY <1>8, <2>2, <2>3 DEF UploadTorn, Upload, At, Goto, Becomes, past, IInv, TypeOK,
       Locals, FailuresOK
<1>9. CASE StagedIsLost(c)
  <2>1. call[c].ok /\ UsesFiles(c) /\ call[c].kind \in Waiting(c)
    BY <1>9, CallType DEF StagedIsLost, At, IInv, FailuresOK, UsesFiles, Outside, Waiting,
       Kinds
  <2>2. c \in met
    BY <1>9, <2>1 DEF StagedIsLost, IsFile, IInv, LoneOK
  <2>3. \A k \in Kinds : call[c].half[k] = NoCall
    BY <1>9, <2>1 DEF StagedIsLost, At, IInv, HalvesOK
  <2>. QED
    BY <1>9, <2>2, <2>3 DEF StagedIsLost, At, Goto, Becomes, past, IInv, TypeOK, Locals,
       FailuresOK
<1>10. CASE CopyRemote(c)
  BY <1>10 DEF CopyRemote, Goto, Becomes, past, IInv, TypeOK, FailuresOK
<1>11. CASE TidyUp(c)
  BY <1>11 DEF TidyUp, AfterPut, Abandon, Goto, Becomes, past, IInv, TypeOK, FailuresOK
<1>12. CASE Commit(c)
  BY <1>12 DEF Commit, Goto, Becomes, past, IInv, TypeOK, FailuresOK
<1>13. CASE UnlinkStaged(c)
  BY <1>13 DEF UnlinkStaged, Goto, Becomes, past, IInv, TypeOK, FailuresOK
<1>14. CASE FileFails(c)
  BY <1>14 DEF FileFails, Strike, Abandon, Goto, Becomes, IInv, TypeOK, FailuresOK
<1>15. CASE UploadFails(c)
  BY <1>15 DEF UploadFails, Strike, Goto, Becomes, IInv, TypeOK, FailuresOK
<1>16. CASE CopyFails(c)
  BY <1>16 DEF CopyFails, Strike, Goto, Becomes, IInv, TypeOK, FailuresOK
<1>17. CASE DeleteFails(c)
  BY <1>17 DEF DeleteFails, Strike, AfterPut, Abandon, Goto, Becomes, IInv, TypeOK,
     FailuresOK
<1>18. CASE CommitFails(c)
  BY <1>18 DEF CommitFails, Strike, Abandon, Goto, Becomes, IInv, TypeOK, FailuresOK
<1>19. CASE Exit(c)
  BY <1>19 DEF Exit, IInv, TypeOK, FailuresOK
<1>. QED
  BY <1>1, <1>2, <1>3, <1>4, <1>5, <1>6, <1>7, <1>8, <1>9, <1>10, <1>11, <1>12, <1>13,
     <1>14, <1>15, <1>16, <1>17, <1>18, <1>19 DEF Persist, Fail

\* Each step that leads towards the commit leaves the object it is to leave.
LEMMA ObjectsStep ==
    ASSUME IInv, NEW c \in Calls, Persist(c) \/ Fail(c), UNCHANGED backend
    PROVE  ObjectsOK'
<1>1. CASE Begin(c)
  BY <1>1 DEF Begin, At, Goto, Becomes, files, IInv, TypeOK, ObjectsOK, Has
<1>2. CASE OpenStaged(c)
  BY <1>2 DEF OpenStaged, At, Goto, Becomes, past, IInv, TypeOK, ObjectsOK, Has
<1>3. CASE WriteStaged(c)
  BY <1>3 DEF WriteStaged, At, Goto, Becomes, past, IInv, TypeOK, ObjectsOK, Has
<1>4. CASE StagedIsGone(c)
  BY <1>4 DEF StagedIsGone, Abandon, At, Goto, Becomes, files, past, IInv, TypeOK,
     ObjectsOK, Has
<1>5. CASE MoveStaged(c)
  BY <1>5 DEF MoveStaged, IsFile, At, Goto, Becomes, past, IInv, TypeOK, Locals, ObjectsOK,
     Has
<1>6. CASE CheckStaged(c)
  BY <1>6 DEF CheckStaged, At, Goto, Becomes, past, IInv, TypeOK, ObjectsOK, Has
<1>7. CASE UploadStaged(c)
  BY <1>7 DEF UploadStaged, Upload, SizeAgrees, At, Goto, Becomes, past, IInv, TypeOK,
     ObjectsOK, Has
<1>8. CASE UploadTorn(c)
  BY <1>8 DEF UploadTorn, Upload, Goto, Becomes, files, past, IInv, TypeOK, ObjectsOK, Has
<1>9. CASE StagedIsLost(c)
  BY <1>9 DEF StagedIsLost, Goto, Becomes, files, past, IInv, TypeOK, ObjectsOK, Has
<1>10. CASE CopyRemote(c)
  BY <1>10 DEF CopyRemote, At, Goto, Becomes, past, IInv, TypeOK, Locals, ObjectsOK, Has
<1>11. CASE TidyUp(c)
  BY <1>11 DEF TidyUp, AfterPut, Abandon, At, Goto, Becomes, past, IInv, TypeOK, Locals,
     Kinds, ObjectsOK, Has
<1>12. CASE Commit(c)
  BY <1>12 DEF Commit, At, Goto, Becomes, files, past, IInv, TypeOK, ObjectsOK, Has
<1>13. CASE UnlinkStaged(c)
  BY <1>13 DEF UnlinkStaged, At, Goto, Becomes, past, IInv, TypeOK, ObjectsOK, Has
<1>14. CASE FileFails(c)
  BY <1>14 DEF FileFails, Strike, Abandon, Goto, Becomes, files, IInv, TypeOK, ObjectsOK,
     Has
<1>15. CASE UploadFails(c)
  BY <1>15 DEF UploadFails, Strike, Goto, Becomes, files, IInv, TypeOK, ObjectsOK, Has
<1>16. CASE CopyFails(c)
  BY <1>16 DEF CopyFails, Strike, Goto, Becomes, files, IInv, TypeOK, ObjectsOK, Has
<1>17. CASE DeleteFails(c)
  BY <1>17 DEF DeleteFails, Strike, AfterPut, Abandon, At, Goto, Becomes, IInv, TypeOK,
     Locals, Kinds, ObjectsOK, Has
<1>18. CASE CommitFails(c)
  BY <1>18 DEF CommitFails, Strike, Abandon, Goto, Becomes, files, IInv, TypeOK, ObjectsOK,
     Has
<1>19. CASE Exit(c)
  BY <1>19 DEF Exit, files, IInv, TypeOK, ObjectsOK, Has
<1>. QED
  BY <1>1, <1>2, <1>3, <1>4, <1>5, <1>6, <1>7, <1>8, <1>9, <1>10, <1>11, <1>12, <1>13,
     <1>14, <1>15, <1>16, <1>17, <1>18, <1>19 DEF Persist, Fail

\* What is copied to a final key has passed the comparison of sizes.
LEMMA FinalStep ==
    ASSUME IInv, NEW c \in Calls, Persist(c) \/ Fail(c)
    PROVE  FinalObjectsAreWhole'
<1>1. CASE Begin(c)
  BY <1>1 DEF Begin, IInv, TypeOK, FinalObjectsAreWhole
<1>2. CASE OpenStaged(c)
  BY <1>2 DEF OpenStaged, IInv, TypeOK, FinalObjectsAreWhole
<1>3. CASE WriteStaged(c)
  BY <1>3 DEF WriteStaged, IInv, TypeOK, FinalObjectsAreWhole
<1>4. CASE StagedIsGone(c)
  BY <1>4 DEF StagedIsGone, IInv, TypeOK, FinalObjectsAreWhole
<1>5. CASE MoveStaged(c)
  BY <1>5 DEF MoveStaged, IInv, TypeOK, FinalObjectsAreWhole
<1>6. CASE CheckStaged(c)
  BY <1>6 DEF CheckStaged, IInv, TypeOK, FinalObjectsAreWhole
<1>7. CASE UploadStaged(c)
  BY <1>7 DEF UploadStaged, Upload, IInv, TypeOK, FinalObjectsAreWhole
<1>8. CASE UploadTorn(c)
  BY <1>8 DEF UploadTorn, Upload, IInv, TypeOK, FinalObjectsAreWhole
<1>9. CASE StagedIsLost(c)
  BY <1>9 DEF StagedIsLost, IInv, TypeOK, FinalObjectsAreWhole
<1>10. CASE CopyRemote(c)
  BY <1>10 DEF CopyRemote, At, IInv, TypeOK, FinalObjectsAreWhole, ObjectsOK
<1>11. CASE TidyUp(c)
  BY <1>11 DEF TidyUp, IInv, TypeOK, FinalObjectsAreWhole
<1>12. CASE Commit(c)
  BY <1>12 DEF Commit, IInv, TypeOK, FinalObjectsAreWhole
<1>13. CASE UnlinkStaged(c)
  BY <1>13 DEF UnlinkStaged, IInv, TypeOK, FinalObjectsAreWhole
<1>14. CASE FileFails(c)
  BY <1>14 DEF FileFails, IInv, TypeOK, FinalObjectsAreWhole
<1>15. CASE UploadFails(c)
  BY <1>15 DEF UploadFails, IInv, TypeOK, FinalObjectsAreWhole
<1>16. CASE CopyFails(c)
  BY <1>16 DEF CopyFails, At, IInv, TypeOK, FinalObjectsAreWhole, ObjectsOK
<1>17. CASE DeleteFails(c)
  BY <1>17 DEF DeleteFails, IInv, TypeOK, FinalObjectsAreWhole
<1>18. CASE CommitFails(c)
  BY <1>18 DEF CommitFails, IInv, TypeOK, FinalObjectsAreWhole
<1>19. CASE Exit(c)
  BY <1>19 DEF Exit, IInv, TypeOK, FinalObjectsAreWhole
<1>. QED
  BY <1>1, <1>2, <1>3, <1>4, <1>5, <1>6, <1>7, <1>8, <1>9, <1>10, <1>11, <1>12, <1>13,
     <1>14, <1>15, <1>16, <1>17, <1>18, <1>19 DEF Persist, Fail

\* The call whose rows are there had both objects, and they stay.
LEMMA RepStep ==
    ASSUME IInv, NEW c \in Calls, Persist(c) \/ Fail(c), UNCHANGED backend
    PROVE  RepOK'
<1>1. CASE Begin(c)
  BY <1>1 DEF Begin, At, Becomes, files, IInv, TypeOK, RepOK, Has
<1>2. CASE OpenStaged(c)
  BY <1>2 DEF OpenStaged, At, Becomes, IInv, TypeOK, RepOK, Has
<1>3. CASE WriteStaged(c)
  BY <1>3 DEF WriteStaged, At, Becomes, IInv, TypeOK, RepOK, Has
<1>4. CASE StagedIsGone(c)
  BY <1>4 DEF StagedIsGone, Abandon, Goto, Becomes, files, IInv, TypeOK, RepOK, Has
<1>5. CASE MoveStaged(c)
  BY <1>5 DEF MoveStaged, At, Becomes, IInv, TypeOK, RepOK, Has
<1>6. CASE CheckStaged(c)
  BY <1>6 DEF CheckStaged, At, Becomes, IInv, TypeOK, RepOK, Has
<1>7. CASE UploadStaged(c)
  BY <1>7 DEF UploadStaged, Upload, At, Becomes, IInv, TypeOK, RepOK, ObjectsOK, Has
<1>8. CASE UploadTorn(c)
  BY <1>8 DEF UploadTorn, Upload, At, Becomes, IInv, TypeOK, RepOK, ObjectsOK, Has
<1>9. CASE StagedIsLost(c)
  BY <1>9 DEF StagedIsLost, At, Becomes, IInv, TypeOK, RepOK, ObjectsOK, Has
<1>10. CASE CopyRemote(c)
  BY <1>10 DEF CopyRemote, At, Becomes, IInv, TypeOK, RepOK, ObjectsOK, Has
<1>11. CASE TidyUp(c)
  BY <1>11 DEF TidyUp, At, Becomes, IInv, TypeOK, RepOK, Has
<1>12. CASE Commit(c)
  <2>1. \A d \in Calls, k \in Kinds : Has(d, k)' = Has(d, k)
    BY <1>12 DEF Commit, files, Has
  <2>2. rep' \in {c, rep}
    BY <1>12 DEF Commit, Inserted
  <2>3. \A k \in Kinds : Has(c, k) /\ call[c].half[k] = NoCall
    BY <1>12 DEF Commit, At, IInv, ObjectsOK, HalvesOK, FailuresOK
  <2>4. /\ call'[c].pc = "unlinking"
        /\ call'[c].half = call[c].half
        /\ \A d \in Calls \ {c} : call'[d] = call[d]
    BY <1>12 DEF Commit, Goto, Becomes, IInv, TypeOK, Locals
  <2>5. CASE rep' = c
    BY <2>1, <2>3, <2>4, <2>5 DEF RepOK
  <2>6. CASE rep' = rep /\ rep # c
    BY <2>1, <2>4, <2>6 DEF IInv, TypeOK, Files, RepOK
  <2>. QED
    BY <2>2, <2>5, <2>6
<1>13. CASE UnlinkStaged(c)
  BY <1>13 DEF UnlinkStaged, Goto, Becomes, IInv, TypeOK, RepOK, Has
<1>14. CASE FileFails(c)
  BY <1>14 DEF FileFails, Abandon, Goto, Becomes, files, IInv, TypeOK, RepOK, Has
<1>15. CASE UploadFails(c)
  BY <1>15 DEF UploadFails, At, Becomes, IInv, TypeOK, RepOK, ObjectsOK, Has
<1>16. CASE CopyFails(c)
  BY <1>16 DEF CopyFails, At, Becomes, IInv, TypeOK, RepOK, ObjectsOK, Has
<1>17. CASE DeleteFails(c)
  BY <1>17 DEF DeleteFails, At, Becomes, IInv, TypeOK, RepOK, Has
<1>18. CASE CommitFails(c)
  BY <1>18 DEF CommitFails, Strike, Inserted, Abandon, At, Goto, Becomes, files, IInv,
     TypeOK, RepOK, ObjectsOK, Has, HalvesOK, FailuresOK
<1>19. CASE Exit(c)
  BY <1>19 DEF Exit, files, IInv, TypeOK, RepOK, Has
<1>. QED
  BY <1>1, <1>2, <1>3, <1>4, <1>5, <1>6, <1>7, <1>8, <1>9, <1>10, <1>11, <1>12, <1>13,
     <1>14, <1>15, <1>16, <1>17, <1>18, <1>19 DEF Persist, Fail

\* No other call at work touches the files of one that has met nobody.
LEMMA LoneStep ==
    ASSUME IInv, NEW c \in Calls, Persist(c) \/ Fail(c)
    PROVE  LoneOK'
<1>1. CASE Begin(c)
  BY <1>1 DEF Begin, Goto, Becomes, IInv, TypeOK, LoneOK, UsesFiles, Waiting
<1>2. CASE OpenStaged(c)
  <2>. DEFINE k == call[c].kind
              file == IF stage[k] = NoCall THEN c ELSE stage[k]
  <2>1. /\ UsesFiles(c)
        /\ met' = met /\ exited' = exited
        /\ \A d \in Calls \ {c} : call'[d] = call[d]
    BY <1>2 DEF OpenStaged, At, Becomes, past, UsesFiles, Outside, IInv, TypeOK
  <2>2. \A d \in Calls : UsesFiles(d)' => UsesFiles(d)
    BY <2>1 DEF UsesFiles
  <2>3. \A d \in Calls \ {c} : ~(UsesFiles(d)' /\ d \notin met')
    BY <2>1, <2>2 DEF IInv, LoneOK
  <2>4. k \in Kinds /\ file \in Calls /\ file # NoCall
    BY CallType, NoCallAssumption DEF IInv, TypeOK, Files
  <2>5. /\ call'[c].pc = "writing" /\ call'[c].kind = k /\ call'[c].half[k] = file
        /\ call'[c].ok = call[c].ok
        /\ stage'[k] = file
        /\ \A n \in Kinds \ {k} : stage'[n] = stage[n] /\ bytes'[n] = bytes[n]
    BY <1>2, <2>4, CallType DEF OpenStaged, Becomes, Goto, IInv, TypeOK, Locals
  <2>6. Waiting(c)' = Waiting(c) /\ Waiting(c) \subseteq Kinds \ {k}
    BY <1>2, <2>4, <2>5 DEF OpenStaged, At, Waiting, Kinds
  <2>7. ASSUME UsesFiles(c)', c \notin met', call'[c].ok
        PROVE  \A n \in Waiting(c)' : stage'[n] # NoCall /\ bytes'[n][stage'[n]] = "whole"
    <3>1. \A n \in Waiting(c) : stage[n] # NoCall /\ bytes[n][stage[n]] = "whole"
      BY <2>1, <2>5, <2>7 DEF IInv, LoneOK
    <3>. QED
      BY <2>5, <2>6, <3>1
  <2>. QED
    BY <2>1, <2>2, <2>3, <2>4, <2>5, <2>7 DEF IInv, LoneOK
<1>3. CASE WriteStaged(c)
  BY <1>3 DEF WriteStaged, Written, At, Goto, Becomes, past, IInv, TypeOK, Locals, Files,
     Kinds, LoneOK, UsesFiles, Outside, Waiting
<1>4. CASE StagedIsGone(c)
  BY <1>4 DEF StagedIsGone, Abandon, At, Becomes, past, IInv, TypeOK, LoneOK, UsesFiles,
     Outside
<1>5. CASE MoveStaged(c)
  <2>1. /\ UsesFiles(c)
        /\ met' = met /\ exited' = exited
        /\ \A d \in Calls \ {c} : call'[d] = call[d]
    BY <1>5 DEF MoveStaged, At, Becomes, past, UsesFiles, Outside, IInv, TypeOK
  <2>2. \A d \in Calls : UsesFiles(d)' => UsesFiles(d)
    BY <2>1 DEF UsesFiles
  <2>3. \A d \in Calls \ {c} : ~(UsesFiles(d)' /\ d \notin met')
    BY <2>1, <2>2 DEF IInv, LoneOK
  <2>4. ASSUME UsesFiles(c)', c \notin met', call'[c].ok
        PROVE  /\ call'[c].pc # "writing"
               /\ \A k \in Waiting(c)' : stage'[k] # NoCall /\ bytes'[k][stage'[k]] = "whole"
    <3>1. /\ call'[c].pc = "tidying" /\ call'[c].kind = call[c].kind /\ call'[c].ok = call[c].ok
          /\ bytes' = bytes
          /\ \A k \in Kinds : k # call[c].kind => stage'[k] = stage[k]
      BY <1>5 DEF MoveStaged, Becomes, Goto, IInv, TypeOK, Locals
    <3>2. \A k \in Waiting(c)' : k \in Waiting(c) /\ k \in Kinds /\ k # call[c].kind
      BY <1>5, <3>1 DEF MoveStaged, At, Waiting, Kinds
    <3>. QED
      BY <2>1, <2>4, <3>1, <3>2 DEF IInv, LoneOK
  <2>. QED
    BY <2>1, <2>2, <2>3, <2>4 DEF IInv, LoneOK
<1>6. CASE CheckStaged(c)
  <2>1. /\ UsesFiles(c)
        /\ met' = met /\ exited' = exited
        /\ \A d \in Calls \ {c} : call'[d] = call[d]
    BY <1>6 DEF CheckStaged, At, Becomes, past, UsesFiles, Outside, IInv, TypeOK
  <2>2. \A d \in Calls : UsesFiles(d)' => UsesFiles(d)
    BY <2>1 DEF UsesFiles
  <2>3. \A d \in Calls \ {c} : ~(UsesFiles(d)' /\ d \notin met')
    BY <2>1, <2>2 DEF IInv, LoneOK
  <2>4. ASSUME UsesFiles(c)', c \notin met', call'[c].ok
        PROVE  /\ call'[c].pc # "writing"
               /\ \A k \in Waiting(c)' : stage'[k] # NoCall /\ bytes'[k][stage'[k]] = "whole"
    <3>1. /\ call'[c].pc = "uploading" /\ call'[c].kind = call[c].kind /\ call'[c].ok = call[c].ok
          /\ bytes' = bytes /\ stage' = stage
      BY <1>6 DEF CheckStaged, files, Becomes, Goto, IInv, TypeOK, Locals
    <3>2. \A k \in Waiting(c)' : k \in Waiting(c) /\ k \in Kinds
      BY <1>6, <3>1 DEF CheckStaged, At, Waiting, Kinds
    <3>. QED
      BY <2>1, <2>4, <3>1, <3>2 DEF IInv, LoneOK
  <2>. QED
    BY <2>1, <2>2, <2>3, <2>4 DEF IInv, LoneOK
<1>7. CASE UploadStaged(c)
  BY <1>7 DEF UploadStaged, Upload, At, Goto, Becomes, files, past, IInv, TypeOK, Kinds,
     LoneOK, UsesFiles, Outside, Waiting
<1>8. CASE UploadTorn(c)
  BY <1>8 DEF UploadTorn, Upload, At, Becomes, past, IInv, TypeOK, Kinds, LoneOK, UsesFiles,
     Outside
<1>9. CASE StagedIsLost(c)
  BY <1>9 DEF StagedIsLost, At, Becomes, past, IInv, TypeOK, LoneOK, UsesFiles, Outside
<1>10. CASE CopyRemote(c)
  BY <1>10 DEF CopyRemote, At, Goto, Becomes, files, past, IInv, TypeOK, LoneOK, UsesFiles,
     Outside, Waiting
<1>11. CASE TidyUp(c)
  <2>1. /\ UsesFiles(c)
        /\ met' = met /\ exited' = exited
        /\ \A d \in Calls \ {c} : call'[d] = call[d]
    BY <1>11 DEF TidyUp, At, Becomes, past, UsesFiles, Outside, IInv, TypeOK
  <2>2. \A d \in Calls : UsesFiles(d)' => UsesFiles(d)
    BY <2>1 DEF UsesFiles
  <2>3. \A d \in Calls \ {c} : ~(UsesFiles(d)' /\ d \notin met')
    BY <2>1, <2>2 DEF IInv, LoneOK
  <2>4. ASSUME UsesFiles(c)', c \notin met', call'[c].ok
        PROVE  /\ call'[c].pc # "writing"
               /\ \A k \in Waiting(c)' : stage'[k] # NoCall /\ bytes'[k][stage'[k]] = "whole"
    <3>1. /\ bytes' = bytes
          /\ \A k \in Kinds : k # call[c].kind => stage'[k] = stage[k]
      BY <1>11 DEF TidyUp, TidiedNames
    <3>2. call[c].ok /\ call[c].kind \in Kinds
      BY <1>11, <2>4, CallType DEF TidyUp, AfterPut, Abandon, Becomes, Goto, IInv, TypeOK,
         Locals
    <3>3. CASE call[c].kind = "json"
      <4>1. call'[c].pc = "storing" /\ call'[c].kind = "render"
        BY <1>11, <3>2, <3>3 DEF TidyUp, AfterPut, Becomes, Goto, IInv, TypeOK, Locals
      <4>2. Waiting(c)' = {"render"} /\ Waiting(c) = {"render"}
        BY <1>11, <3>3, <4>1 DEF TidyUp, At, Waiting
      <4>. QED
        BY <2>1, <2>4, <3>1, <3>2, <3>3, <4>1, <4>2 DEF IInv, LoneOK, Kinds
    <3>4. CASE call[c].kind = "render"
      <4>1. call'[c].pc = "committing"
        BY <1>11, <3>2, <3>4 DEF TidyUp, AfterPut, Becomes, Goto, IInv, TypeOK, Locals
      <4>. QED
        BY <4>1 DEF Waiting
    <3>. QED
      BY <3>2, <3>3, <3>4 DEF Kinds
  <2>. QED
    BY <2>1, <2>2, <2>3, <2>4 DEF IInv, LoneOK
<1>12. CASE Commit(c)
  BY <1>12 DEF Commit, At, Goto, Becomes, past, IInv, TypeOK, LoneOK, UsesFiles, Outside,
     Waiting
<1>13. CASE UnlinkStaged(c)
  BY <1>13 DEF UnlinkStaged, At, Goto, Becomes, past, IInv, TypeOK, Kinds, LoneOK,
     UsesFiles, Outside, Waiting
<1>14. CASE FileFails(c)
  BY <1>14 DEF FileFails, Strike, Abandon, At, Becomes, IInv, TypeOK, LoneOK, UsesFiles,
     Outside
<1>15. CASE UploadFails(c)
  BY <1>15 DEF UploadFails, Strike, At, Becomes, IInv, TypeOK, LoneOK, UsesFiles, Outside
<1>16. CASE CopyFails(c)
  BY <1>16 DEF CopyFails, Strike, At, Becomes, files, IInv, TypeOK, LoneOK, UsesFiles,
     Outside
<1>17. CASE DeleteFails(c)
  BY <1>17 DEF DeleteFails, Strike, AfterPut, At, Goto, Becomes, IInv, TypeOK, Remote,
     LoneOK, UsesFiles, Outside, Waiting, FailuresOK
<1>18. CASE CommitFails(c)
  BY <1>18 DEF CommitFails, Strike, Abandon, At, Becomes, IInv, TypeOK, LoneOK, UsesFiles,
     Outside
<1>19. CASE Exit(c)
  BY <1>19 DEF Exit, UsesFiles, IInv, TypeOK, LoneOK
<1>. QED
  BY <1>1, <1>2, <1>3, <1>4, <1>5, <1>6, <1>7, <1>8, <1>9, <1>10, <1>11, <1>12, <1>13,
     <1>14, <1>15, <1>16, <1>17, <1>18, <1>19 DEF Persist, Fail

\* A name is taken only by a call that has its unlink ahead.
LEMMA CleanedStep ==
    ASSUME IInv, NEW c \in Calls, Persist(c) \/ Fail(c)
    PROVE  CleanedOK'
<1>1. CASE Begin(c)
  BY <1>1 DEF Begin, Goto, Becomes, IInv, TypeOK, CleanedOK, Outside
<1>2. CASE OpenStaged(c)
  BY <1>2 DEF OpenStaged, Goto, Becomes, IInv, TypeOK, CleanedOK, Outside
<1>3. CASE WriteStaged(c)
  BY <1>3 DEF WriteStaged, Goto, Becomes, IInv, TypeOK, CleanedOK, Outside
<1>4. CASE StagedIsGone(c)
  BY <1>4 DEF StagedIsGone, Abandon, Goto, Becomes, IInv, TypeOK, CleanedOK, Outside
<1>5. CASE MoveStaged(c)
  BY <1>5 DEF MoveStaged, Goto, Becomes, IInv, TypeOK, CleanedOK, Outside
<1>6. CASE CheckStaged(c)
  BY <1>6 DEF CheckStaged, Goto, Becomes, IInv, TypeOK, CleanedOK, Outside
<1>7. CASE UploadStaged(c)
  BY <1>7 DEF UploadStaged, Goto, Becomes, IInv, TypeOK, CleanedOK, Outside
<1>8. CASE UploadTorn(c)
  BY <1>8 DEF UploadTorn, Goto, Becomes, IInv, TypeOK, CleanedOK, Outside
<1>9. CASE StagedIsLost(c)
  BY <1>9 DEF StagedIsLost, Goto, Becomes, IInv, TypeOK, CleanedOK, Outside
<1>10. CASE CopyRemote(c)
  BY <1>10 DEF CopyRemote, Goto, Becomes, IInv, TypeOK, CleanedOK, Outside
<1>11. CASE TidyUp(c)
  BY <1>11 DEF TidyUp, AfterPut, Abandon, Goto, Becomes, IInv, TypeOK, CleanedOK, Outside
<1>12. CASE Commit(c)
  BY <1>12 DEF Commit, Goto, Becomes, IInv, TypeOK, CleanedOK, Outside
<1>13. CASE UnlinkStaged(c)
  <2>1. CASE call[c].kind = "json"
    BY <1>13, <2>1 DEF UnlinkStaged, At, Goto, Becomes, IInv, TypeOK, Locals, Files, Kinds,
       CleanedOK, Outside
  <2>2. CASE call[c].kind = "render"
    <3>1. ASSUME NEW n \in Kinds, stage'[n] # NoCall
          PROVE  n = "json" /\ stage[n] # NoCall
      BY <1>13, <2>2, <3>1 DEF UnlinkStaged, IInv, TypeOK, Kinds
    <3>2. ASSUME stage["json"] # NoCall
          PROVE  \E d \in Calls \ {c} : d \in exited \/
                    (call[d].pc \notin Outside /\ ~(call[d].pc = "unlinking" /\ call[d].kind = "render"))
      BY <1>13, <2>2, <3>2 DEF UnlinkStaged, At, IInv, CleanedOK, Kinds
    <3>3. \A d \in Calls \ {c} : call'[d] = call[d]
      BY <1>13 DEF UnlinkStaged, Becomes, IInv, TypeOK
    <3>4. exited' = exited
      BY <1>13 DEF UnlinkStaged, past
    <3>. QED
      BY <3>1, <3>2, <3>3, <3>4 DEF CleanedOK
  <2>. QED
    BY <2>1, <2>2, CallType DEF IInv, Kinds
<1>14. CASE FileFails(c)
  BY <1>14 DEF FileFails, Abandon, Goto, Becomes, IInv, TypeOK, CleanedOK, Outside
<1>15. CASE UploadFails(c)
  BY <1>15 DEF UploadFails, Goto, Becomes, IInv, TypeOK, CleanedOK, Outside
<1>16. CASE CopyFails(c)
  BY <1>16 DEF CopyFails, Goto, Becomes, IInv, TypeOK, CleanedOK, Outside
<1>17. CASE DeleteFails(c)
  BY <1>17 DEF DeleteFails, AfterPut, Abandon, Goto, Becomes, IInv, TypeOK, CleanedOK,
     Outside
<1>18. CASE CommitFails(c)
  BY <1>18 DEF CommitFails, Abandon, Goto, Becomes, IInv, TypeOK, CleanedOK, Outside
<1>19. CASE Exit(c)
  BY <1>19 DEF Exit, IInv, TypeOK, CleanedOK
<1>. QED
  BY <1>1, <1>2, <1>3, <1>4, <1>5, <1>6, <1>7, <1>8, <1>9, <1>10, <1>11, <1>12, <1>13,
     <1>14, <1>15, <1>16, <1>17, <1>18, <1>19 DEF Persist, Fail

\* The initial states.
LEMMA InitIInv == Init => IInv
<1>. SUFFICES ASSUME Init
              PROVE  IInv
  OBVIOUS
<1>1. TypeOK
  BY DEF Init, TypeOK, Files, Contents, Remote, Locals, PCs, Kinds
<1>2. FilesOK /\ HalvesOK /\ FailuresOK
  BY DEF Init, FilesOK, HalvesOK, FailuresOK
<1>3. ObjectsOK /\ FinalObjectsAreWhole /\ RepOK
  BY DEF Init, ObjectsOK, FinalObjectsAreWhole, RepOK
<1>4. LoneOK /\ CleanedOK
  BY DEF Init, LoneOK, CleanedOK, UsesFiles, Outside
<1>. QED
  BY <1>1, <1>2, <1>3, <1>4 DEF IInv

\* A step that changes nothing.
LEMMA StutterIInv == IInv /\ UNCHANGED vars => IInv'
  BY DEF vars, IInv, TypeOK, FilesOK, HalvesOK, FailuresOK, ObjectsOK, Has,
         FinalObjectsAreWhole, RepOK, LoneOK, UsesFiles, Waiting, CleanedOK

\* IInv is inductive: whatever calls meet, fail and exit, each part of it stays.
THEOREM Invariance == Spec => []IInv
<1>1. Init => IInv
  BY InitIInv
<1>2. IInv /\ [Next]_vars => IInv'
  <2>1. ASSUME IInv, NEW c \in Calls, Persist(c) \/ Fail(c), UNCHANGED backend
        PROVE  IInv'
    BY <2>1, TypeStep, FilesStep, HalvesStep, FailuresStep, ObjectsStep, FinalStep,
       RepStep, LoneStep, CleanedStep DEF IInv
  <2>. QED
    BY <2>1, StutterIInv DEF Next
<1>. QED
  BY <1>1, <1>2, PTL DEF Spec

\* Type correctness, for any number of calls.
THEOREM TypeCorrect == Spec => []TypeOK
<1>1. IInv => TypeOK
  BY DEF IInv
<1>. QED
  BY <1>1, Invariance, PTL

\* The rows of a page name two objects that are there.
THEOREM PairIsStored == Spec => []CommittedPairIsStored
<1>1. IInv => CommittedPairIsStored
  BY NoCallAssumption DEF IInv, TypeOK, Files, RepOK, Has, FilesOK,
                          CommittedPairIsStored, Stored
<1>. QED
  BY <1>1, Invariance, PTL

\* A committed local object that lacks its bytes is open in, or was left by,
\* another call that opened it under its staging name.
THEOREM TornByAWriter == Spec => []TornOnlyByAWriter
<1>1. ASSUME IInv, rep # NoCall, NEW k \in Kinds, backend = "local", Stored(rep, k) # "whole"
      PROVE  \E d \in Calls \ {rep} :
                 /\ call[d].half[k] = derived[rep][k]
                 /\ At(d, "writing") \/ d \in exited \cup struck
  <2>. DEFINE file == derived[rep][k]
  <2>1. file # NoCall /\ call[rep].half[k] = NoCall
    BY <1>1 DEF IInv, RepOK, Has
  <2>2. rep \in Calls /\ file \in Calls
    BY <1>1, <2>1 DEF IInv, TypeOK, Files
  <2>3. bytes[k][file] = "empty"
    BY <1>1, <2>1, <2>2 DEF IInv, TypeOK, Contents, FilesOK, Stored
  <2>4. PICK d \in Calls : call[d].half[k] = file
    BY <1>1, <2>2, <2>3 DEF FilesOK, IInv
  <2>5. d # rep
    BY <2>1, <2>4
  <2>6. At(d, "writing") \/ d \in exited \cup struck
    BY <1>1, <2>1, <2>4 DEF IInv, HalvesOK, FailuresOK, At
  <2>. QED
    BY <2>4, <2>5, <2>6
<1>2. IInv => TornOnlyByAWriter
  BY <1>1 DEF TornOnlyByAWriter
<1>. QED
  BY <1>2, Invariance, PTL

\* An S3 object under its final key is whole.
THEOREM FinalIsWhole == Spec => []FinalObjectsAreWhole
<1>1. IInv => FinalObjectsAreWhole
  BY DEF IInv
<1>. QED
  BY <1>1, Invariance, PTL

\* A call that fails met an error or another call.
THEOREM LoneSucceeds == Spec => []LoneCallSucceeds
<1>1. IInv => LoneCallSucceeds
  BY DEF IInv, FailuresOK, LoneCallSucceeds
<1>. QED
  BY <1>1, Invariance, PTL

\* Nothing stays under staging names and keys but by an exit or a failed delete.
THEOREM StagingEmptied == Spec => []StagingIsEmptied
<1>1. IInv => StagingIsEmptied
  BY DEF IInv, CleanedOK, ObjectsOK, UsesFiles, Outside, StagingIsEmptied
<1>. QED
  BY <1>1, Invariance, PTL

=============================================================================
