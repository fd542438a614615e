--------------------- MODULE CertificateAuthorityProofs ---------------------
(***************************************************************************)
(* The properties of CertificateAuthority for any domains, any number of   *)
(* serials and of processes that revoke, and one process that issues at a  *)
(* time, as the counter requires: it is read and written without a lock.   *)
(***************************************************************************)
EXTENDS CertificateAuthority, TLAPS

OneIssuer == \A p, q \in Issuers : p = q

(* The number is greater than every serial that was used.                  *)
Fresh(n) == \A c \in signed : c.serial < n

(* The counter, or the number an issuer has taken from it, is fresh until  *)
(* the certificate is made; by then the counter is ahead of it, or lost.   *)
SerialInv ==
  /\ counter = 0 \/ Fresh(counter)
  /\ \A p \in Issuers :
       /\ command[p].step \in {"truncate", "advance", "sign"} =>
            command[p].serial = 0 \/ Fresh(command[p].serial)
       /\ At(p, "sign") => \/ command[p].serial = 0
                          \/ counter = 0
                          \/ command[p].serial < counter
       /\ At(p, "save") => command[p].serial # 0

-----------------------------------------------------------------------------
(* The next-state relation, by name of its actions.                        *)
LEMMA NextCases ==
  ASSUME Next
  PROVE  \/ \E p \in Issuers, D \in SUBSET Domains, o \in BOOLEAN : IssueLoad(p, D, o)
         \/ \E p \in Issuers : \/ IssueCheck(p) \/ IssueServer(p) \/ ReadCounter(p)
                               \/ Truncate(p) \/ Advance(p) \/ Sign(p) \/ Save(p)
         \/ \E p \in Revokers, s \in Serials : RevokeAppend(p, s)
         \/ \E p \in Revokers : MarkLoad(p) \/ MarkSave(p)
         \/ \E p \in Commands : RebuildLoad(p) \/ RebuildWrite(p) \/ Crash(p)
         \/ \E c \in signed, D \in SUBSET Domains : EnsureRead(c, D)
         \/ RecoverRead \/ IndexWrite \/ ServerCrash
  BY DEF Next

CommandType == [step : Steps, serial : 0 .. MaxSerial, domains : SUBSET Domains,
                overlap : BOOLEAN, tls : BOOLEAN, copy : SUBSET Entries]

LEMMA IdleType == Idle \in CommandType
  BY AuthorityAssumption DEF Idle, CommandType, Steps

LEMMA IndexType == ASSUME NEW M \in SUBSET Entries PROVE IndexOf(M) \in Indexes
  BY DEF IndexOf, Indexes, Entries, Certificates

(* Marking a serial revoked leaves a set of index entries. *)
LEMMA MarkedType ==
  ASSUME NEW M \in SUBSET Entries, NEW s PROVE Marked(M, s) \in SUBSET Entries
<1>1. \A e \in Entries : [e EXCEPT !.valid = FALSE] \in Entries BY DEF Entries
<1> QED BY <1>1 DEF Marked

(* The certificate a command is about is a certificate. *)
LEMMA CertType ==
  ASSUME TypeOK, NEW p \in Commands, command[p].serial # 0
  PROVE  CertOf(p) \in Certificates
<1>1. command[p] \in CommandType BY DEF TypeOK, CommandType
<1>2. command[p].serial \in Serials BY <1>1, AuthorityAssumption DEF CommandType, Serials
<1> QED BY <1>1, <1>2 DEF CertOf, Certificates, CommandType

LEMMA TypeInit == Init => TypeOK
<1> SUFFICES ASSUME Init PROVE TypeOK OBVIOUS
<1>1. NoIndex \in Indexes BY DEF NoIndex, Indexes
<1>2. command \in [Commands -> CommandType] BY IdleType DEF Init
<1> QED BY <1>1, <1>2, AuthorityAssumption DEF Init, TypeOK, CommandType

(* Each step of a command keeps the command's type.                        *)
LEMMA TypeStep == TypeOK /\ SerialInv /\ [Next]_vars => TypeOK'
<1> SUFFICES ASSUME TypeOK, SerialInv, [Next]_vars PROVE TypeOK' OBVIOUS
<1>0. command \in [Commands -> CommandType] BY DEF TypeOK, CommandType
<1> DEFINE Typed == command' \in [Commands -> CommandType]
<1>m. MaxSerial \in Nat BY AuthorityAssumption
<1>1. ASSUME NEW p \in Commands, NEW k \in CommandType,
             command' = [command EXCEPT ![p] = k]
      PROVE  Typed
  BY <1>0, <1>1
<1>2. ASSUME NEW p \in Commands, NEW step \in Steps, Goes(p, step) PROVE Typed
  BY <1>0, <1>2 DEF Goes, CommandType
<1>r. ASSUME NEW p \in Commands, NEW c \in SUBSET Entries, NEW step \in Steps,
             command' = [command EXCEPT ![p].copy = c, ![p].step = step]
      PROVE  Typed
  <2>1. [command[p] EXCEPT !.copy = c, !.step = step] \in CommandType
    BY <1>0 DEF CommandType
  <2>2. command' = [command EXCEPT ![p] = [command[p] EXCEPT !.copy = c, !.step = step]]
    BY <1>0, <1>r
  <2> QED BY <1>1, <2>1, <2>2
<1>3. ASSUME NEW p \in Commands, Ends(p) PROVE Typed
  BY <1>1, <1>3, IdleType DEF Ends
<1>4. ASSUME Typed, UNCHANGED <<counter, signed, certs, index, crl, server>> PROVE TypeOK'
  BY <1>4 DEF TypeOK, CommandType
<1>5. ASSUME NEW p \in Issuers, NEW D \in SUBSET Domains, NEW o \in BOOLEAN,
             IssueLoad(p, D, o)
      PROVE  TypeOK'
  <2>1. [Idle EXCEPT !.step = "check", !.domains = D, !.overlap = o, !.copy = certs]
          \in CommandType
    BY IdleType DEF CommandType, Steps, TypeOK
  <2>2. Typed BY <1>5, <1>1, <2>1 DEF IssueLoad, Commands
  <2> QED BY <1>5, <1>4, <2>2 DEF IssueLoad
<1>6. ASSUME NEW p \in Issuers, IssueCheck(p) PROVE TypeOK'
  BY <1>6, <1>2, <1>3, <1>4 DEF IssueCheck, Commands, Steps
<1>7. ASSUME NEW p \in Issuers, IssueServer(p) PROVE TypeOK'
  <2>1. Typed BY <1>7, <1>0 DEF IssueServer, Commands, CommandType, Steps
  <2> QED BY <1>7, <1>4, <2>1 DEF IssueServer
<1>8. ASSUME NEW p \in Issuers, ReadCounter(p) PROVE TypeOK'
  <2>1. counter \in 0 .. MaxSerial BY <1>8, <1>m DEF ReadCounter, TypeOK
  <2>2. Typed BY <1>8, <1>0, <2>1 DEF ReadCounter, Commands, CommandType, Steps
  <2> QED BY <1>8, <1>4, <2>2 DEF ReadCounter
<1>9. ASSUME NEW p \in Issuers, Truncate(p) PROVE TypeOK'
  <2>1. Typed BY <1>9, <1>2 DEF Truncate, Commands, Steps
  <2> QED BY <1>9, <2>1, <1>m DEF Truncate, TypeOK, CommandType
<1>10. ASSUME NEW p \in Issuers, Advance(p) PROVE TypeOK'
  <2>1. Typed BY <1>10, <1>2 DEF Advance, Commands, Steps
  <2>2. command[p].serial \in 0 .. MaxSerial BY <1>0 DEF Commands, CommandType
  <2>3. counter' \in 0 .. MaxSerial + 1 BY <1>10, <2>2, <1>m DEF Advance, Following
  <2> QED BY <1>10, <2>1, <2>3 DEF Advance, TypeOK, CommandType
<1>11. ASSUME NEW p \in Issuers, Sign(p) PROVE TypeOK'
  <2>1. Typed BY <1>11, <1>2, <1>3 DEF Sign, Commands, Steps
  <2>2. signed' \subseteq Certificates BY <1>11, CertType DEF Sign, Commands, TypeOK
  <2> QED BY <1>11, <2>1, <2>2 DEF Sign, TypeOK, CommandType
<1>12. ASSUME NEW p \in Issuers, Save(p) PROVE TypeOK'
  <2>1. Typed BY <1>12, <1>2 DEF Save, Commands, Steps
  <2>2. command[p].copy \subseteq Entries BY <1>0 DEF Commands, CommandType
  <2>3. command[p].serial # 0 BY <1>12 DEF SerialInv, Save
  <2>c. CertOf(p) \in Certificates BY <2>3, CertType DEF Commands
  <2>e. [cert |-> CertOf(p), valid |-> TRUE] \in Entries BY <2>c DEF Entries
  <2>4. certs' \subseteq Entries BY <1>12, <2>2, <2>e DEF Save
  <2> QED BY <1>12, <2>1, <2>4 DEF Save, TypeOK, CommandType
<1>13. ASSUME NEW p \in Revokers, NEW s \in Serials, RevokeAppend(p, s) PROVE TypeOK'
  <2>1. s \in 0 .. MaxSerial BY <1>m DEF Serials
  <2>2. Typed BY <1>13, <1>0, <2>1 DEF RevokeAppend, Commands, CommandType, Steps
  <2> QED BY <1>13, <2>2 DEF RevokeAppend, TypeOK, CommandType
<1>14. ASSUME NEW p \in Revokers, MarkLoad(p) PROVE TypeOK'
  <2>1. certs \in SUBSET Entries /\ "marked" \in Steps /\ p \in Commands
    BY DEF TypeOK, Steps, Commands
  <2>2. Typed BY <1>14, <1>r, <2>1 DEF MarkLoad
  <2> QED BY <1>14, <1>4, <2>2 DEF MarkLoad
<1>15. ASSUME NEW p \in Revokers, MarkSave(p) PROVE TypeOK'
  <2>1. Typed BY <1>15, <1>2 DEF MarkSave, Commands, Steps
  <2>2. command[p].copy \in SUBSET Entries BY <1>0 DEF Commands, CommandType
  <2> QED BY <1>15, <2>1, <2>2, MarkedType DEF MarkSave, TypeOK, CommandType
<1>16. ASSUME NEW p \in Commands, RebuildLoad(p) PROVE TypeOK'
  <2>1. certs \in SUBSET Entries /\ "index" \in Steps BY DEF TypeOK, Steps
  <2>2. Typed BY <1>16, <1>r, <2>1 DEF RebuildLoad
  <2> QED BY <1>16, <1>4, <2>2 DEF RebuildLoad
<1>17. ASSUME NEW p \in Commands, RebuildWrite(p) PROVE TypeOK'
  <2>1. Typed BY <1>17, <1>3 DEF RebuildWrite
  <2>2. command[p].copy \in SUBSET Entries BY <1>0 DEF CommandType
  <2> QED BY <1>17, <2>1, <2>2, IndexType DEF RebuildWrite, TypeOK, CommandType
<1>18. ASSUME NEW p \in Commands, Crash(p) PROVE TypeOK'
  BY <1>18, <1>3, <1>4 DEF Crash
<1>19. ASSUME NEW i \in Indexes, ServerPrepares(i) PROVE TypeOK'
  BY <1>19 DEF ServerPrepares, TypeOK
<1>20. ASSUME NEW c \in signed, NEW D \in SUBSET Domains, EnsureRead(c, D) PROVE TypeOK'
  <2>1. c.serial \in Serials BY DEF TypeOK, Certificates
  <2>2. Ensured(c.serial, D) \in Indexes BY <2>1 DEF Ensured, Indexes, TypeOK
  <2> QED BY <1>20, <1>19, <2>2 DEF EnsureRead
<1>21. ASSUME RecoverRead PROVE TypeOK'
  BY <1>21, <1>19, IndexType DEF RecoverRead, TypeOK
<1>22. ASSUME IndexWrite \/ ServerCrash PROVE TypeOK'
  <2>1. NoIndex \in Indexes BY DEF NoIndex, Indexes
  <2>2. server.index \in Indexes BY DEF TypeOK
  <2>3. index' \in Indexes BY <1>22, <2>2 DEF IndexWrite, ServerCrash, TypeOK
  <2>s. server' = [busy |-> FALSE, index |-> NoIndex] BY <1>22 DEF IndexWrite, ServerCrash
  <2>4. server' \in [busy : BOOLEAN, index : Indexes] BY <2>1, <2>s
  <2>5. Typed BY <1>22, <1>0 DEF IndexWrite, ServerCrash
  <2>6. UNCHANGED <<counter, signed, certs, crl>> BY <1>22 DEF IndexWrite, ServerCrash
  <2> QED BY <2>3, <2>4, <2>5, <2>6 DEF TypeOK, CommandType
<1>23. ASSUME UNCHANGED vars PROVE TypeOK'
  BY <1>23 DEF vars, TypeOK
<1> QED
  BY <1>5, <1>6, <1>7, <1>8, <1>9, <1>10, <1>11, <1>12, <1>13, <1>14, <1>15, <1>16, <1>17,
     <1>18, <1>20, <1>21, <1>22, <1>23, NextCases

-----------------------------------------------------------------------------
(* Serials.                                                                *)
LEMMA SerialInit == Init => SerialInv
  BY DEF Init, SerialInv, Fresh, Idle, At, Commands

(* The steps of a command that has read the counter.                       *)
Later == {"truncate", "advance", "sign", "save"}

(* A step that leaves the counter and the signatures alone, and no command past its
   reading of the counter that was not, keeps SerialInv. *)
LEMMA SerialKept ==
  ASSUME SerialInv, UNCHANGED <<counter, signed>>,
         \A q \in Issuers : command'[q] = command[q] \/ command'[q].step \notin Later
  PROVE  SerialInv'
<1>1. ASSUME NEW n PROVE Fresh(n)' <=> Fresh(n) BY DEF Fresh
<1> QED BY DEF SerialInv, Fresh, At, Later

(* With one issuer, what it does is all that happens to an issuer.         *)
LEMMA SerialStep ==
  OneIssuer /\ TypeOK /\ SerialInv /\ [Next]_vars => SerialInv'
<1> SUFFICES ASSUME OneIssuer, TypeOK, SerialInv, [Next]_vars PROVE SerialInv' OBVIOUS
<1>0. command \in [Commands -> CommandType] BY DEF TypeOK, CommandType
<1>d. Issuers \subseteq Commands /\ Revokers \subseteq Commands BY DEF Commands
<1>s. \A q \in Issuers : command[q].serial \in Int /\ counter \in Int
  BY <1>0, <1>d, AuthorityAssumption DEF CommandType, TypeOK
<1>f. ASSUME NEW n, UNCHANGED signed PROVE Fresh(n)' <=> Fresh(n) BY <1>f DEF Fresh
<1>1. ASSUME NEW p \in Commands, Ends(p), UNCHANGED <<counter, signed>> PROVE SerialInv'
  BY <1>0, <1>1, <1>d, SerialKept DEF Ends, Idle, Later
<1>2. ASSUME NEW p \in Commands, NEW step \in Steps \ Later, Goes(p, step),
             UNCHANGED <<counter, signed>>
      PROVE  SerialInv'
  BY <1>0, <1>2, <1>d, SerialKept DEF Goes
<1>3. ASSUME NEW p \in Issuers, NEW D \in SUBSET Domains, NEW o \in BOOLEAN,
             IssueLoad(p, D, o)
      PROVE  SerialInv'
  BY <1>0, <1>3, <1>d, SerialKept DEF IssueLoad, Idle, Later
<1>4. ASSUME NEW p \in Issuers, IssueCheck(p) PROVE SerialInv'
  BY <1>4, <1>1, <1>2, <1>d DEF IssueCheck, Steps, Later
<1>5. ASSUME NEW p \in Issuers, IssueServer(p) PROVE SerialInv'
  BY <1>0, <1>5, <1>d, SerialKept DEF IssueServer, Later
<1>6. ASSUME NEW p \in Issuers, ReadCounter(p) PROVE SerialInv'
  <2>1. \A q \in Issuers : command'[q].step = "truncate" /\ command'[q].serial = counter
    BY <1>0, <1>6, <1>d DEF ReadCounter, OneIssuer
  <2> QED BY <1>6, <2>1, <1>f DEF ReadCounter, SerialInv, At
<1>7. ASSUME NEW p \in Issuers, Truncate(p) PROVE SerialInv'
  <2>1. \A q \in Issuers : /\ command'[q].step = "advance"
                           /\ command'[q].serial = command[q].serial
                           /\ command[q].step = "truncate"
    BY <1>0, <1>7, <1>d DEF Truncate, OneIssuer, Goes, At
  <2> QED BY <1>7, <2>1, <1>f DEF Truncate, SerialInv, At
<1>8. ASSUME NEW p \in Issuers, Advance(p) PROVE SerialInv'
  <2>1. \A q \in Issuers : /\ command'[q].step = "sign"
                           /\ command'[q].serial = command[q].serial
                           /\ command[q].step = "advance"
                           /\ counter' = Following(command[q].serial)
    BY <1>0, <1>8, <1>d DEF Advance, OneIssuer, Goes, At
  <2>2. \A q \in Issuers : \/ command[q].serial = 0 /\ counter' = 0
                           \/ /\ Fresh(command[q].serial)
                              /\ counter' = command[q].serial + 1
    BY <2>1 DEF SerialInv, Following
  <2>3. counter' = 0 \/ Fresh(counter')
    <3>1. \A c \in signed : c.serial \in Int BY DEF TypeOK, Certificates, Serials
    <3> QED BY <2>2, <3>1, <1>s DEF Fresh
  <2> QED BY <1>8, <2>1, <2>2, <2>3, <1>f, <1>s DEF Advance, SerialInv, At
<1>9. ASSUME NEW p \in Issuers, Sign(p) PROVE SerialInv'
  <2>1. CASE command[p].serial = 0 BY <1>9, <2>1, <1>1, <1>d DEF Sign
  <2>2. CASE command[p].serial # 0
    <3>0. Goes(p, "save") \/ Ends(p) BY <1>9, <2>2 DEF Sign
    <3>1. \A q \in Issuers : /\ command'[q].step \in {"idle", "save"}
                             /\ command'[q].step = "save" => command'[q].serial # 0
      <4>1. ASSUME Ends(p) PROVE \A q \in Issuers : command'[q].step = "idle"
        BY <1>0, <4>1, <1>d DEF OneIssuer, Ends, Idle
      <4>2. ASSUME Goes(p, "save")
            PROVE  \A q \in Issuers : command'[q].step = "save" /\ command'[q].serial # 0
        BY <1>0, <4>2, <2>2, <1>d DEF OneIssuer, Goes
      <4> QED BY <3>0, <4>1, <4>2
    <3>2. counter = 0 \/ (Fresh(counter) /\ command[p].serial < counter)
      BY <1>9, <2>2 DEF Sign, SerialInv
    <3>c. CertOf(p).serial = command[p].serial BY DEF CertOf
    <3>n. signed' = signed \cup {CertOf(p)} /\ counter' = counter BY <1>9, <2>2 DEF Sign
    <3>3. (counter = 0 \/ Fresh(counter))' BY <3>2, <3>c, <3>n DEF Fresh
    <3> QED BY <3>1, <3>3 DEF SerialInv, At
  <2> QED BY <2>1, <2>2
<1>10. ASSUME NEW p \in Issuers, Save(p) PROVE SerialInv'
  BY <1>10, <1>2, <1>d DEF Save, Steps, Later
<1>11. ASSUME NEW p \in Revokers, NEW s \in Serials, RevokeAppend(p, s) PROVE SerialInv'
  BY <1>0, <1>11, <1>d, SerialKept DEF RevokeAppend, Later
<1>12. ASSUME NEW p \in Revokers, MarkLoad(p) PROVE SerialInv'
  BY <1>0, <1>12, <1>d, SerialKept DEF MarkLoad, Later
<1>13. ASSUME NEW p \in Revokers, MarkSave(p) PROVE SerialInv'
  BY <1>13, <1>2, <1>d DEF MarkSave, Steps, Later
<1>14. ASSUME NEW p \in Commands, RebuildLoad(p) PROVE SerialInv'
  BY <1>0, <1>14, <1>d, SerialKept DEF RebuildLoad, Later
<1>15. ASSUME NEW p \in Commands, RebuildWrite(p) \/ Crash(p) PROVE SerialInv'
  BY <1>15, <1>1 DEF RebuildWrite, Crash
<1>16. ASSUME UNCHANGED <<counter, signed, command>> PROVE SerialInv'
  BY <1>16, SerialKept
<1> QED
  BY <1>3, <1>4, <1>5, <1>6, <1>7, <1>8, <1>9, <1>10, <1>11, <1>12, <1>13, <1>14, <1>15,
     <1>16, NextCases
     DEF EnsureRead, RecoverRead, ServerPrepares, IndexWrite, ServerCrash, vars

-----------------------------------------------------------------------------
(* What the files and the variables of the commands say is of certificates *)
(* that were made.                                                         *)
Recorded(M) == \A e \in M : e.cert \in signed
Named(i) ==
  \A d \in Domains : \A s \in i[d] : \E c \in signed : c.serial = s /\ d \in c.domains

RecordInv ==
  /\ Recorded(certs)
  /\ \A p \in Commands : Recorded(command[p].copy)
  /\ \A p \in Issuers : At(p, "save") => CertOf(p) \in signed
  /\ Named(index) /\ Named(server.index)

LEMMA RecordInit == Init => RecordInv
  BY DEF Init, RecordInv, Recorded, Named, NoIndex, Idle, At, Commands

(* Certificates are only ever added.                                       *)
LEMMA SignedGrows == ASSUME [Next]_vars PROVE signed \subseteq signed'
  BY DEF Next, vars, IssueLoad, IssueCheck, IssueServer, ReadCounter, Truncate, Advance,
         Sign, Save, RevokeAppend, MarkLoad, MarkSave, RebuildLoad, RebuildWrite, Crash,
         EnsureRead, RecoverRead, ServerPrepares, IndexWrite, ServerCrash

(* An index of recorded certificates names them.                           *)
LEMMA IndexNamed == ASSUME NEW M, Recorded(M) PROVE Named(IndexOf(M))
  BY DEF Recorded, Named, IndexOf

(* What a command has loaded is what it had, the file, or nothing.         *)
LEMMA CopyStep ==
  ASSUME TypeOK, [Next]_vars, NEW q \in Commands
  PROVE  command'[q].copy \in {command[q].copy, certs, {}}
<1>0. command \in [Commands -> CommandType] BY DEF TypeOK, CommandType
<1>d. Issuers \subseteq Commands /\ Revokers \subseteq Commands BY DEF Commands
<1> DEFINE Copied == command'[q].copy \in {command[q].copy, certs, {}}
<1>a. ASSUME NEW p \in Commands, Ends(p) PROVE Copied
  BY <1>0, <1>a DEF Ends, Idle
<1>b. ASSUME NEW p \in Commands, NEW step, Goes(p, step) PROVE Copied
  BY <1>0, <1>b DEF Goes, CommandType
<1>c. ASSUME NEW p \in Issuers, NEW D \in SUBSET Domains, NEW o \in BOOLEAN,
             IssueLoad(p, D, o)
      PROVE  Copied
  BY <1>0, <1>d, <1>c DEF IssueLoad, Idle
<1>v. ASSUME NEW p \in Issuers, IssueServer(p) \/ ReadCounter(p) PROVE Copied
  BY <1>0, <1>d, <1>v DEF IssueServer, ReadCounter, CommandType
<1>e. ASSUME NEW p \in Issuers, \/ IssueCheck(p) \/ Truncate(p) \/ Advance(p)
                                \/ Sign(p) \/ Save(p)
      PROVE  Copied
  BY <1>d, <1>e, <1>a, <1>b DEF IssueCheck, Truncate, Advance, Sign, Save
<1>f. ASSUME NEW p \in Revokers, NEW s \in Serials, RevokeAppend(p, s) PROVE Copied
  BY <1>0, <1>d, <1>f DEF RevokeAppend, CommandType
<1>g. ASSUME NEW p \in Commands, MarkLoad(p) \/ RebuildLoad(p) PROVE Copied
  BY <1>0, <1>g DEF MarkLoad, RebuildLoad, CommandType
<1>h. ASSUME NEW p \in Commands, MarkSave(p) \/ RebuildWrite(p) \/ Crash(p) PROVE Copied
  BY <1>a, <1>b, <1>h DEF MarkSave, RebuildWrite, Crash
<1>i. ASSUME UNCHANGED command PROVE Copied
  BY <1>i
<1> QED
  BY <1>d, <1>c, <1>v, <1>e, <1>f, <1>g, <1>h, <1>i, NextCases
     DEF EnsureRead, RecoverRead, ServerPrepares, IndexWrite, ServerCrash, vars

(* A command comes to save only by signing.                                *)
LEMMA SavingStep ==
  ASSUME TypeOK, [Next]_vars, NEW q \in Issuers, command'[q].step = "save"
  PROVE  command'[q] = command[q] \/ (Sign(q) /\ Goes(q, "save") /\ command[q].serial # 0)
<1>0. command \in [Commands -> CommandType] BY DEF TypeOK, CommandType
<1>d. Issuers \subseteq Commands /\ Revokers \subseteq Commands BY DEF Commands
<1> DEFINE Here == command'[q] = command[q] \/ (Sign(q) /\ Goes(q, "save")
                                                 /\ command[q].serial # 0)
<1>a. ASSUME NEW p \in Commands, Ends(p) PROVE Here
  BY <1>0, <1>d, <1>a DEF Ends, Idle
<1>b. ASSUME NEW p \in Commands, NEW step, step # "save", Goes(p, step) PROVE Here
  BY <1>0, <1>d, <1>b DEF Goes, CommandType
<1>c. ASSUME NEW p \in Issuers, NEW D \in SUBSET Domains, NEW o \in BOOLEAN,
             IssueLoad(p, D, o)
      PROVE  Here
  BY <1>0, <1>d, <1>c DEF IssueLoad, Idle
<1>v. ASSUME NEW p \in Issuers, IssueServer(p) \/ ReadCounter(p) PROVE Here
  BY <1>0, <1>d, <1>v DEF IssueServer, ReadCounter, CommandType
<1>e. ASSUME NEW p \in Issuers, \/ IssueCheck(p) \/ Truncate(p) \/ Advance(p) \/ Save(p)
      PROVE  Here
  BY <1>d, <1>e, <1>a, <1>b DEF IssueCheck, Truncate, Advance, Save
<1>s. ASSUME NEW p \in Issuers, Sign(p) PROVE Here
  <2>1. CASE Ends(p) BY <2>1, <1>a, <1>d
  <2>2. CASE Goes(p, "save") /\ p # q BY <2>2, <1>0, <1>d DEF Goes
  <2>3. CASE Goes(p, "save") /\ ~Ends(p) /\ p = q BY <2>3, <1>s DEF Sign
  <2> QED BY <1>s, <2>1, <2>2, <2>3 DEF Sign
<1>f. ASSUME NEW p \in Revokers, NEW s \in Serials, RevokeAppend(p, s) PROVE Here
  BY <1>0, <1>d, <1>f DEF RevokeAppend, CommandType
<1>g. ASSUME NEW p \in Commands, MarkLoad(p) \/ RebuildLoad(p) PROVE Here
  BY <1>0, <1>d, <1>g DEF MarkLoad, RebuildLoad, CommandType
<1>h. ASSUME NEW p \in Commands, MarkSave(p) \/ RebuildWrite(p) \/ Crash(p) PROVE Here
  BY <1>a, <1>b, <1>h DEF MarkSave, RebuildWrite, Crash
<1>i. ASSUME UNCHANGED command PROVE Here
  BY <1>i
<1> QED
  BY <1>d, <1>c, <1>v, <1>e, <1>s, <1>f, <1>g, <1>h, <1>i, NextCases
     DEF EnsureRead, RecoverRead, ServerPrepares, IndexWrite, ServerCrash, vars

LEMMA RecordStep == TypeOK /\ RecordInv /\ SerialInv /\ [Next]_vars => RecordInv'
<1> SUFFICES ASSUME TypeOK, RecordInv, SerialInv, [Next]_vars PROVE RecordInv' OBVIOUS
<1>0. command \in [Commands -> CommandType] BY DEF TypeOK, CommandType
<1>d. Issuers \subseteq Commands /\ Revokers \subseteq Commands BY DEF Commands
<1>g. signed \subseteq signed' BY SignedGrows
<1>1. Recorded(certs)'
  <2>1. ASSUME NEW p \in Issuers, Save(p) PROVE Recorded(certs)'
    <3>1. Recorded(command[p].copy) /\ CertOf(p) \in signed
      BY <2>1, <1>d DEF RecordInv, Save
    <3> QED BY <2>1, <3>1, <1>g DEF Save, Recorded
  <2>2. ASSUME NEW p \in Revokers, MarkSave(p) PROVE Recorded(certs)'
    <3>1. Recorded(command[p].copy) BY <1>d DEF RecordInv
    <3>2. ASSUME NEW e \in certs' PROVE e.cert \in signed
      <4>1. PICK f \in command[p].copy :
              e = IF f.cert.serial = command[p].serial THEN [f EXCEPT !.valid = FALSE] ELSE f
        BY <2>2 DEF MarkSave, Marked
      <4>2. f \in Entries BY <1>0, <1>d DEF CommandType
      <4>3. e.cert = f.cert BY <4>1, <4>2 DEF Entries
      <4> QED BY <3>1, <4>3 DEF Recorded
    <3> QED BY <3>2, <1>g DEF Recorded
  <2>3. ASSUME UNCHANGED certs PROVE Recorded(certs)'
    BY <2>3, <1>g DEF RecordInv, Recorded
  <2> QED
    BY <2>1, <2>2, <2>3, NextCases
       DEF IssueLoad, IssueCheck, IssueServer, ReadCounter, Truncate, Advance, Sign,
           RevokeAppend, MarkLoad, RebuildLoad, RebuildWrite, Crash, EnsureRead,
           RecoverRead, ServerPrepares, IndexWrite, ServerCrash, vars
<1>2. ASSUME NEW q \in Commands PROVE Recorded(command[q].copy)'
  <2>1. command'[q].copy \in {command[q].copy, certs, {}} BY CopyStep
  <2>2. Recorded(command[q].copy) /\ Recorded(certs) BY DEF RecordInv
  <2> QED BY <2>1, <2>2, <1>g DEF Recorded
<1>3. ASSUME NEW q \in Issuers, At(q, "save")' PROVE (CertOf(q) \in signed)'
  <2>1. CASE command'[q] = command[q]
    <3>1. CertOf(q)' = CertOf(q) /\ At(q, "save") BY <2>1, <1>3 DEF CertOf, At
    <3> QED BY <3>1, <1>g DEF RecordInv
  <2>2. ASSUME Sign(q), Goes(q, "save"), command[q].serial # 0
        PROVE  (CertOf(q) \in signed)'
    <3>1. CertOf(q)' = CertOf(q) BY <2>2, <1>0, <1>d DEF CertOf, Goes, CommandType
    <3> QED BY <2>2, <3>1 DEF Sign
  <2>3. command'[q] = command[q] \/ (Sign(q) /\ Goes(q, "save") /\ command[q].serial # 0)
    BY <1>3, SavingStep DEF At
  <2> QED BY <2>1, <2>2, <2>3
<1>4. Named(index)' /\ Named(server.index)'
  <2>n. Named(NoIndex) BY DEF Named, NoIndex
  <2>k. Named(index) /\ Named(server.index) BY DEF RecordInv
  <2>a. ASSUME NEW p \in Commands, RebuildWrite(p) PROVE Named(index)' /\ Named(server.index)'
    <3>1. Named(IndexOf(command[p].copy)) BY IndexNamed DEF RecordInv
    <3> QED BY <2>a, <2>k, <3>1, <1>g DEF RebuildWrite, Named
  <2>b. ASSUME IndexWrite \/ ServerCrash PROVE Named(index)' /\ Named(server.index)'
    <3>1. server'.index = NoIndex BY <2>b DEF IndexWrite, ServerCrash
    <3>2. index' = index \/ index' = server.index BY <2>b DEF IndexWrite, ServerCrash
    <3> QED BY <2>k, <2>n, <3>1, <3>2, <1>g DEF Named
  <2>c. ASSUME NEW i, Named(i), ServerPrepares(i) PROVE Named(index)' /\ Named(server.index)'
    <3>1. index' = index /\ server'.index = i BY <2>c DEF ServerPrepares
    <3> QED BY <2>k, <2>c, <3>1, <1>g DEF Named
  <2>d. ASSUME NEW c \in signed, NEW D \in SUBSET Domains, EnsureRead(c, D)
        PROVE  Named(index)' /\ Named(server.index)'
    <3>1. Named(Ensured(c.serial, D)) BY <2>d, <2>k DEF EnsureRead, Ensured, Named
    <3> QED BY <2>d, <2>c, <3>1 DEF EnsureRead
  <2>e. ASSUME RecoverRead PROVE Named(index)' /\ Named(server.index)'
    BY <2>e, <2>c, IndexNamed DEF RecoverRead, RecordInv
  <2>f. ASSUME UNCHANGED <<index, server>> PROVE Named(index)' /\ Named(server.index)'
    BY <2>f, <2>k, <1>g DEF Named
  <2> QED
    BY <2>a, <2>b, <2>d, <2>e, <2>f, NextCases
       DEF IssueLoad, IssueCheck, IssueServer, ReadCounter, Truncate, Advance, Sign, Save,
           RevokeAppend, MarkLoad, MarkSave, RebuildLoad, Crash, vars
<1> QED BY <1>1, <1>2, <1>3, <1>4 DEF RecordInv

-----------------------------------------------------------------------------
(* Overlaps.  Every version of the metadata, in the file or loaded by some *)
(* command, keeps the certificates in force apart: a version grows only by *)
(* a certificate that was checked against that version.                    *)
Effective(e, R) == e.valid /\ e.cert.serial \notin R

Apart(M, R) ==
  \A e, f \in M :
    Effective(e, R) /\ Effective(f, R) /\ e.cert.serial < f.cert.serial
      /\ e.cert.domains \cap f.cert.domains # {} => f.cert.overlap

Clear(M, D, R) == \A e \in M : Effective(e, R) => e.cert.domains \cap D = {}

Checked == {"serial"} \cup Later

CheckInv(k) ==
  k.step \in Checked /\ ~k.tls => k.overlap \/ Clear(k.copy, k.domains, crl)
SaveInv(k) ==
  k.step = "save" => ~k.tls /\ \A e \in k.copy : e.cert.serial < k.serial

OverlapInv ==
  /\ Apart(certs, crl)
  /\ \A p \in Commands : Apart(command[p].copy, crl)
  /\ \A p \in Issuers : CheckInv(command[p]) /\ SaveInv(command[p])

LEMMA OverlapInit == Init => OverlapInv
  BY DEF Init, OverlapInv, Apart, CheckInv, SaveInv, Idle, Commands, Checked, Later

(* Revocation only sets certificates more apart.                           *)
LEMMA ApartLater ==
  ASSUME NEW R, NEW S, R \subseteq S
  PROVE  /\ \A M : Apart(M, R) => Apart(M, S)
         /\ \A M, D : Clear(M, D, R) => Clear(M, D, S)
  BY DEF Apart, Clear, Effective

(* The revocation list never loses a serial. *)
LEMMA ListGrows == ASSUME [Next]_vars PROVE crl \subseteq crl'
  BY DEF Next, vars, IssueLoad, IssueCheck, IssueServer, ReadCounter, Truncate, Advance,
         Sign, Save, RevokeAppend, MarkLoad, MarkSave, RebuildLoad, RebuildWrite, Crash,
         EnsureRead, RecoverRead, ServerPrepares, IndexWrite, ServerCrash

(* What Taken says of the domains that are free.                           *)
LEMMA TakenClear ==
  ASSUME NEW M, NEW D, Taken(M, D) = {} PROVE Clear(M, D, crl)
  BY DEF Taken, Clear, Effective

(* Entries that are apart stay apart when a serial is marked revoked among them. *)
LEMMA MarkedApart ==
  ASSUME NEW M \in SUBSET Entries, NEW s, NEW R, Apart(M, R) PROVE Apart(Marked(M, s), R)
<1>1. ASSUME NEW e \in Marked(M, s)
      PROVE  \E f \in M : e.cert = f.cert /\ (Effective(e, R) => Effective(f, R))
  <2>1. PICK f \in M : e = IF f.cert.serial = s THEN [f EXCEPT !.valid = FALSE] ELSE f
    BY DEF Marked
  <2>2. f \in Entries OBVIOUS
  <2>3. CASE f.cert.serial = s
    <3>1. e.cert = f.cert /\ e.valid = FALSE BY <2>1, <2>2, <2>3 DEF Entries
    <3> QED BY <3>1 DEF Effective
  <2>4. CASE f.cert.serial # s BY <2>1, <2>4
  <2> QED BY <2>3, <2>4
<1> QED BY <1>1 DEF Apart

(* A certificate later than those of M, and clear of them or issued to     *)
(* overlap, is apart from them.                                            *)
LEMMA AddedApart ==
  ASSUME NEW M \in SUBSET Entries, NEW n \in Entries, NEW R, Apart(M, R),
         \A e \in M : e.cert.serial < n.cert.serial,
         n.cert.overlap \/ Clear(M, n.cert.domains, R)
  PROVE  Apart(M \cup {n}, R)
<1>1. \A e \in M \cup {n} : e.cert.serial \in Int
  BY DEF Entries, Certificates, Serials
<1>2. ASSUME NEW e \in M \cup {n}, NEW f \in M \cup {n},
             Effective(e, R), Effective(f, R), e.cert.serial < f.cert.serial,
             e.cert.domains \cap f.cert.domains # {}
      PROVE  f.cert.overlap
  <2>1. CASE e \in M /\ f \in M BY <2>1, <1>2 DEF Apart
  <2>2. CASE e \in M /\ f = n BY <2>2, <1>2 DEF Clear
  <2>3. CASE e = n BY <2>3, <1>1, <1>2
  <2> QED BY <2>1, <2>2, <2>3
<1> QED BY <1>2 DEF Apart

(* The ways a command comes to a step after the check.                     *)
LEMMA CheckedStep ==
  ASSUME TypeOK, [Next]_vars, NEW q \in Issuers, command'[q].step \in Checked
  PROVE  \/ command'[q] = command[q]
         \/ command'[q].tls
         \/ /\ command[q].step \in Checked
            /\ command'[q].tls = command[q].tls
            /\ command'[q].overlap = command[q].overlap
            /\ command'[q].domains = command[q].domains
            /\ command'[q].copy = command[q].copy
         \/ IssueCheck(q) /\ Goes(q, "serial")
<1>0. command \in [Commands -> CommandType] BY DEF TypeOK, CommandType
<1>d. Issuers \subseteq Commands /\ Revokers \subseteq Commands BY DEF Commands
<1> DEFINE Same == /\ command[q].step \in Checked
                   /\ command'[q].tls = command[q].tls
                   /\ command'[q].overlap = command[q].overlap
                   /\ command'[q].domains = command[q].domains
                   /\ command'[q].copy = command[q].copy
           Here == \/ command'[q] = command[q] \/ command'[q].tls \/ Same
                   \/ IssueCheck(q) /\ Goes(q, "serial")
<1>a. ASSUME NEW p \in Commands, Ends(p) PROVE Here
  BY <1>0, <1>d, <1>a DEF Ends, Idle, Checked, Later
<1>b. ASSUME NEW p \in Commands, NEW step, command[p].step \in Checked, Goes(p, step)
      PROVE  Here
  BY <1>0, <1>d, <1>b DEF Goes, CommandType
<1>u. ASSUME NEW p \in Commands, NEW step, step \notin Checked, Goes(p, step) PROVE Here
  BY <1>0, <1>d, <1>u DEF Goes, CommandType
<1>c. ASSUME NEW p \in Issuers, NEW D \in SUBSET Domains, NEW o \in BOOLEAN,
             IssueLoad(p, D, o)
      PROVE  Here
  BY <1>0, <1>d, <1>c DEF IssueLoad, Idle, Checked, Later
<1>v. ASSUME NEW p \in Issuers, IssueServer(p) PROVE Here
  <2>1. command' = [command EXCEPT ![p].step = "serial", ![p].tls = TRUE]
    BY <1>v DEF IssueServer
  <2>2. CASE p = q
    <3>1. command'[q].tls = TRUE BY <1>0, <1>d, <2>1, <2>2 DEF CommandType
    <3> QED BY <3>1
  <2>3. CASE p # q BY <1>0, <1>d, <2>1, <2>3
  <2> QED BY <2>2, <2>3
<1>k. ASSUME NEW p \in Issuers, IssueCheck(p) PROVE Here
  <2>1. CASE Ends(p) BY <2>1, <1>a, <1>d
  <2>2. CASE Goes(p, "serial") /\ p = q BY <2>2, <1>k
  <2>3. CASE Goes(p, "serial") /\ p # q BY <1>0, <1>d, <2>3 DEF Goes
  <2> QED BY <1>k, <2>1, <2>2, <2>3 DEF IssueCheck
<1>r. ASSUME NEW p \in Issuers, ReadCounter(p) PROVE Here
  <2>1. command[p].step \in Checked BY <1>r DEF ReadCounter, At, Checked
  <2> QED BY <1>0, <1>d, <1>r, <2>1 DEF ReadCounter, CommandType
<1>e. ASSUME NEW p \in Issuers, Truncate(p) \/ Advance(p) \/ Sign(p) \/ Save(p) PROVE Here
  <2>1. command[p].step \in Checked
    BY <1>e DEF Truncate, Advance, Sign, Save, At, Checked, Later
  <2> QED BY <1>d, <1>e, <1>a, <1>b, <2>1 DEF Truncate, Advance, Sign, Save
<1>f. ASSUME NEW p \in Revokers, NEW s \in Serials, RevokeAppend(p, s) PROVE Here
  BY <1>0, <1>d, <1>f DEF RevokeAppend, CommandType, Checked, Later
<1>g. ASSUME NEW p \in Commands, MarkLoad(p) \/ RebuildLoad(p) PROVE Here
  BY <1>0, <1>d, <1>g DEF MarkLoad, RebuildLoad, CommandType, Checked, Later
<1>h. ASSUME NEW p \in Commands, MarkSave(p) \/ RebuildWrite(p) \/ Crash(p) PROVE Here
  <2>1. "load" \notin Checked BY DEF Checked, Later
  <2> QED BY <1>a, <1>u, <1>h, <2>1 DEF MarkSave, RebuildWrite, Crash
<1>i. ASSUME UNCHANGED command PROVE Here
  BY <1>i
<1> QED
  BY <1>d, <1>c, <1>v, <1>k, <1>r, <1>e, <1>f, <1>g, <1>h, <1>i, NextCases
     DEF EnsureRead, RecoverRead, ServerPrepares, IndexWrite, ServerCrash, vars

(* Every step keeps entries that share a domain apart, the index of the table and the
   copies the commands hold. *)
LEMMA OverlapStep ==
  TypeOK /\ SerialInv /\ RecordInv /\ OverlapInv /\ [Next]_vars => OverlapInv'
<1> SUFFICES ASSUME TypeOK, SerialInv, RecordInv, OverlapInv, [Next]_vars PROVE OverlapInv'
  OBVIOUS
<1>0. command \in [Commands -> CommandType] BY DEF TypeOK, CommandType
<1>d. Issuers \subseteq Commands /\ Revokers \subseteq Commands BY DEF Commands
<1>g. crl \subseteq crl' BY ListGrows
<1>1. Apart(certs', crl')
  <2>1. ASSUME NEW p \in Issuers, Save(p) PROVE Apart(certs', crl')
    <3> DEFINE k == command[p]
               n == [cert |-> CertOf(p), valid |-> TRUE]
    <3>1. At(p, "save") /\ k.serial # 0 BY <2>1 DEF Save, SerialInv
    <3>2. k.copy \in SUBSET Entries BY <1>0, <1>d DEF CommandType
    <3>3. n \in Entries BY <3>1, <1>d, CertType DEF Entries
    <3>4. ~k.tls /\ \A e \in k.copy : e.cert.serial < k.serial
      BY <3>1 DEF OverlapInv, SaveInv, At
    <3>5. k.overlap \/ Clear(k.copy, k.domains, crl)
      BY <3>1, <3>4 DEF OverlapInv, CheckInv, At, Checked, Later
    <3>6. /\ n.cert.serial = k.serial
          /\ n.cert.overlap = k.overlap
          /\ n.cert.domains = k.domains
      BY DEF CertOf
    <3>7. Apart(k.copy, crl) BY <1>d DEF OverlapInv
    <3>8. Apart(k.copy \cup {n}, crl)
      <4> HIDE DEF n, k
      <4> QED BY <3>2, <3>3, <3>4, <3>5, <3>6, <3>7, AddedApart
    <3>9. certs' = k.copy \cup {n} /\ crl' = crl BY <2>1 DEF Save
    <3> QED BY <3>8, <3>9
  <2>2. ASSUME NEW p \in Revokers, MarkSave(p) PROVE Apart(certs', crl')
    <3>1. command[p].copy \in SUBSET Entries BY <1>0, <1>d DEF CommandType
    <3>2. Apart(command[p].copy, crl) BY <1>d DEF OverlapInv
    <3> QED BY <2>2, <3>1, <3>2, MarkedApart DEF MarkSave
  <2>3. ASSUME UNCHANGED certs PROVE Apart(certs', crl')
    BY <2>3, <1>g, ApartLater DEF OverlapInv
  <2> QED
    BY <2>1, <2>2, <2>3, NextCases
       DEF IssueLoad, IssueCheck, IssueServer, ReadCounter, Truncate, Advance, Sign,
           RevokeAppend, MarkLoad, RebuildLoad, RebuildWrite, Crash, EnsureRead,
           RecoverRead, ServerPrepares, IndexWrite, ServerCrash, vars
<1>2. ASSUME NEW q \in Commands PROVE Apart(command'[q].copy, crl')
  <2>1. command'[q].copy \in {command[q].copy, certs, {}} BY CopyStep
  <2>2. Apart(command[q].copy, crl') /\ Apart(certs, crl')
    BY <1>g, ApartLater DEF OverlapInv
  <2>3. Apart({}, crl') BY DEF Apart
  <2> QED BY <2>1, <2>2, <2>3
<1>3. ASSUME NEW q \in Issuers, command'[q].step \in Checked, ~command'[q].tls
      PROVE  command'[q].overlap \/ Clear(command'[q].copy, command'[q].domains, crl')
  <2>1. CASE command'[q] = command[q]
    BY <2>1, <1>3, <1>g, ApartLater DEF OverlapInv, CheckInv
  <2>2. CASE /\ command[q].step \in Checked
             /\ command'[q].tls = command[q].tls
             /\ command'[q].overlap = command[q].overlap
             /\ command'[q].domains = command[q].domains
             /\ command'[q].copy = command[q].copy
    BY <2>2, <1>3, <1>g, ApartLater DEF OverlapInv, CheckInv
  <2>3. CASE IssueCheck(q) /\ Goes(q, "serial")
    <3>1. ~Ends(q) BY <1>0, <1>d, <2>3 DEF Goes, Ends, Idle
    <3>2. command[q].overlap \/ Clear(command[q].copy, command[q].domains, crl)
      BY <2>3, <3>1, TakenClear DEF IssueCheck
    <3>3. /\ command'[q].overlap = command[q].overlap
          /\ command'[q].domains = command[q].domains
          /\ command'[q].copy = command[q].copy
      BY <1>0, <1>d, <2>3 DEF Goes, CommandType
    <3> QED BY <3>2, <3>3, <1>g, ApartLater
  <2> QED BY <1>3, <2>1, <2>2, <2>3, CheckedStep
<1>4. ASSUME NEW q \in Issuers, command'[q].step = "save"
      PROVE  ~command'[q].tls /\ \A e \in command'[q].copy : e.cert.serial < command'[q].serial
  <2>1. CASE command'[q] = command[q] BY <2>1, <1>4 DEF OverlapInv, SaveInv
  <2>2. CASE Sign(q) /\ Goes(q, "save") /\ command[q].serial # 0
    <3>1. ~Ends(q) BY <1>0, <1>d, <2>2 DEF Goes, Ends, Idle
    <3>2. ~command[q].tls BY <2>2, <3>1 DEF Sign
    <3>3. Fresh(command[q].serial) BY <2>2 DEF SerialInv, Sign, At
    <3>4. Recorded(command[q].copy) BY <1>d DEF RecordInv
    <3>5. \A e \in command[q].copy : e.cert.serial < command[q].serial
      BY <3>3, <3>4 DEF Fresh, Recorded
    <3>6. /\ command'[q].tls = command[q].tls
          /\ command'[q].serial = command[q].serial
          /\ command'[q].copy = command[q].copy
      BY <1>0, <1>d, <2>2 DEF Goes, CommandType
    <3> QED BY <3>2, <3>5, <3>6
  <2> QED BY <1>4, <2>1, <2>2, SavingStep
<1> QED BY <1>1, <1>2, <1>3, <1>4 DEF OverlapInv, CheckInv, SaveInv

-----------------------------------------------------------------------------
(* The invariant of the authority.                                         *)
AuthorityInv == TypeOK /\ SerialInv /\ RecordInv /\ OverlapInv

(* With one issuer the whole invariant holds in every state. *)
LEMMA Inductive == OneIssuer /\ Spec => []AuthorityInv
<1>1. Init => AuthorityInv
  BY TypeInit, SerialInit, RecordInit, OverlapInit DEF AuthorityInv
<1> SUFFICES ASSUME OneIssuer PROVE Spec => []AuthorityInv OBVIOUS
<1>2. AuthorityInv /\ [Next]_vars => AuthorityInv'
  BY TypeStep, SerialStep, RecordStep, OverlapStep DEF AuthorityInv
<1> QED BY <1>1, <1>2, PTL DEF Spec

(* Every variable keeps its type, and above all the counter and the        *)
(* serials: numbers, or the mark of a counter that was lost.               *)
THEOREM AuthorityTypes == OneIssuer /\ Spec => []TypeOK
<1>1. AuthorityInv => TypeOK BY DEF AuthorityInv
<1> QED BY <1>1, Inductive, PTL

(* No serial is used twice, wherever commands stop.                        *)
THEOREM SerialsUnique == OneIssuer /\ Spec => []UniqueSerials
<1>1. AuthorityInv => UniqueSerials
  <2> SUFFICES ASSUME AuthorityInv, NEW p \in Issuers, At(p, "sign"), NEW c \in signed
               PROVE  c.serial # command[p].serial
    BY DEF UniqueSerials
  <2>1. c.serial \in Int /\ c.serial # 0
    BY DEF AuthorityInv, TypeOK, Certificates, Serials
  <2>2. command[p].serial \in Int BY DEF AuthorityInv, TypeOK, Commands
  <2>3. command[p].serial = 0 \/ Fresh(command[p].serial)
    BY DEF AuthorityInv, SerialInv, At
  <2> QED BY <2>1, <2>2, <2>3 DEF Fresh
<1> QED BY <1>1, Inductive, PTL

(* Recorded certificates in force overlap only where it was asked for,     *)
(* however many revocations load and save the metadata meanwhile.          *)
THEOREM ValidCertificatesApart == OneIssuer /\ Spec => []OneValid
<1>1. AuthorityInv => OneValid
  BY DEF AuthorityInv, OverlapInv, OneValid, InForce, Apart, Effective
<1> QED BY <1>1, Inductive, PTL

(* A domain is not announced, nor refused, for the sake of certificates    *)
(* that are all revoked.                                                   *)
THEOREM DomainsFreed == OneIssuer /\ Spec => []FreedDomains
<1>1. AuthorityInv => FreedDomains
  <2> SUFFICES ASSUME AuthorityInv, NEW d \in Domains,
                      IsIssuedDomain(d) \/ Taken(certs, {d}) # {}
               PROVE  \E c \in signed : d \in c.domains /\ c.serial \notin crl
    BY DEF FreedDomains
  <2>1. CASE IsIssuedDomain(d)
    BY <2>1 DEF AuthorityInv, RecordInv, Named, IsIssuedDomain
  <2>2. CASE Taken(certs, {d}) # {}
    BY <2>2 DEF AuthorityInv, RecordInv, Recorded, Taken
  <2> QED BY <2>1, <2>2
<1> QED BY <1>1, Inductive, PTL
=============================================================================
