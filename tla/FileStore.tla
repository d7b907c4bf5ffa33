----------------------------- MODULE FileStore -----------------------------
(***************************************************************************)
(* src/files over src/digital-ocean, with two services that use them: the  *)
(* documents of src/application-documents and the logo of                  *)
(* src/site-settings.  A stored file is an object in the bucket and a row  *)
(* of the table File that names its key; documents and settings name keys, *)
(* too.  No transaction spans the bucket and the database, and either may  *)
(* fail at any call.                                                       *)
(*                                                                         *)
(* Left out: reading (URLs are signed for any key, whether or not there is *)
(* an object), the second logo, which is treated like the first, and the   *)
(* logos of partners, whose old objects stay in the bucket.                *)
(***************************************************************************)
EXTENDS Backend

CONSTANTS
    ObjectKeys,       \* object keys: each upload draws a new one
    Plain,      \* keys that a URL's path spells without percent signs
    Docs,       \* the uuids of documents
    MaxBatch    \* bound: files in one upload

ASSUME FilesAssumption ==
    Plain \subseteq ObjectKeys /\ Null \notin ObjectKeys /\ MaxBatch \in Nat \ {0}

VARIABLES
    objects,    \* the bucket
    files,      \* File: the keys that rows name
    docKeys,    \* ApplicationDocument: its key
    logo,       \* SiteSetting.logoUrl
    fileReq,
    drawn,      \* keys that uploads have drawn
    troubled,   \* keys a failed request had in hand
    retired     \* keys removed from the bucket as replaced logos
fsTables == <<objects, files, docKeys, logo>>
fsVars == <<fsTables, fileReq, drawn, troubled, retired>>

\* `left` files are to be uploaded, `keys` have been, `key` is the one in hand;
\* `for` says what follows; `doc` is the document to remove.
FileIdle == [pc |-> "idle", left |-> 0, keys |-> {}, key |-> Null,
             for |-> "answer", doc |-> Null]
FileAt(r, pc) == fileReq[r].pc = pc
FileGoto(r, q) == fileReq' = Step(fileReq, r, q)
FileAwait(r, pc) == FileGoto(r, [fileReq[r] EXCEPT !.pc = pc])
FileStart(r, q) ==
    /\ fileReq[r] = FileIdle
    /\ FileGoto(r, q)
    /\ UNCHANGED <<fsTables, drawn, troubled, retired>>

FSInit ==
    /\ objects = {} /\ files = {} /\ docKeys = NoRows /\ logo = Null
    /\ fileReq = [r \in Reqs |-> FileIdle]
    /\ drawn = {} /\ troubled = {} /\ retired = {}

-----------------------------------------------------------------------------
(* uploadFile and uploadMultipleFiles: store, insert, sign, file by file *)

Upload(r, n) == FileStart(r, [FileIdle EXCEPT !.pc = "store", !.left = n])
UploadLogo(r) ==
    FileStart(r, [FileIdle EXCEPT !.pc = "store", !.left = 1, !.for = "logo"])

\* A large file goes up in parts, and becomes an object when all are there.
StoreObject(r) ==
    /\ FileAt(r, "store")
    /\ \E k \in ObjectKeys \ drawn :
         /\ objects' = objects \cup {k} /\ drawn' = drawn \cup {k}
         /\ FileGoto(r, [fileReq[r] EXCEPT !.pc = "insert", !.key = k,
                                           !.keys = @ \cup {k}])
    /\ UNCHANGED <<files, docKeys, logo, troubled, retired>>

InsertFile(r) ==
    /\ FileAt(r, "insert")
    /\ files' = files \cup {fileReq[r].key}
    /\ FileAwait(r, "sign")
    /\ UNCHANGED <<objects, docKeys, logo, drawn, troubled, retired>>

Sign(r) ==
    LET q == fileReq[r] IN
    /\ FileAt(r, "sign")
    /\ FileGoto(r, IF q.left > 1
                   THEN [q EXCEPT !.pc = "store", !.left = @ - 1, !.key = Null]
                   ELSE IF q.for = "logo" THEN [q EXCEPT !.pc = "readSettings", !.left = 0]
                   ELSE FileIdle)
    /\ UNCHANGED <<fsTables, drawn, troubled, retired>>

\* A call fails: what was uploaded is removed from the bucket, not its rows.
FailUpload(r) ==
    LET q == fileReq[r] IN
    /\ Faults /\ q.pc \in {"store", "insert", "sign"}
    /\ troubled' = troubled \cup q.keys
    /\ FileGoto(r, IF q.keys = {} THEN FileIdle ELSE [q EXCEPT !.pc = "cleanup", !.key = Null])
    /\ UNCHANGED <<fsTables, drawn, retired>>

\* That may fail as well, which is logged.
Cleanup(r) ==
    LET q == fileReq[r] IN
    /\ FileAt(r, "cleanup")
    /\ \E k \in q.keys :
         /\ \/ objects' = objects \ {k}
            \/ Faults /\ UNCHANGED objects
         /\ FileGoto(r, IF q.keys = {k} THEN FileIdle ELSE [q EXCEPT !.keys = @ \ {k}])
    /\ UNCHANGED <<files, docKeys, logo, drawn, troubled, retired>>

-----------------------------------------------------------------------------
(* deleteFile, deleteFileByUrl: the row is found, then object and row go *)

Deleting(q, k) == [q EXCEPT !.pc = "deleteObject", !.key = k]
DeleteFile(r, k) == k \in files /\ FileStart(r, Deleting(FileIdle, k))

\* The path of a URL is taken for the key as it is, percent signs and all; what
\* is not a URL is taken for the key.
KeyOf(k, isUrl) == IF isUrl /\ k \notin Plain THEN Null ELSE k
DeleteFileByUrl(r, k, isUrl) ==
    /\ KeyOf(k, isUrl) \in files
    /\ FileStart(r, Deleting(FileIdle, k))

DeleteObject(r) ==
    /\ FileAt(r, "deleteObject")
    /\ objects' = objects \ {fileReq[r].key}
    /\ FileAwait(r, "deleteRow")
    /\ UNCHANGED <<files, docKeys, logo, drawn, troubled, retired>>

AfterObject_Done(k) == files
AfterObject(k) == files \ {k}
DeleteRow(r) ==
    /\ FileAt(r, "deleteRow")
    /\ files' = AfterObject(fileReq[r].key)
    /\ FileGoto(r, FileIdle)
    /\ UNCHANGED <<objects, docKeys, logo, drawn, troubled, retired>>

-----------------------------------------------------------------------------
(* Documents: several may name one key; the last step of removing one is to  *)
(* delete its file, whoever else uses it                                     *)

\* The key is what the caller says; that it is one some upload drew nobody tests.
AttachDocument(d, k) ==
    /\ d \notin DOMAIN docKeys /\ k \in drawn
    /\ docKeys' = With(docKeys, d, k)
    /\ UNCHANGED <<objects, files, logo, fileReq, drawn, troubled, retired>>

FindDocument(r, d) ==
    /\ d \in DOMAIN docKeys
    /\ FileStart(r, [FileIdle EXCEPT !.pc = "deleteDocument", !.doc = d,
                                     !.key = docKeys[d]])

DeleteDocument(r) ==
    LET d == fileReq[r].doc IN
    /\ FileAt(r, "deleteDocument")
    /\ docKeys' = Without(docKeys, {d})
    /\ IF d \in DOMAIN docKeys THEN FileAwait(r, "findFile") ELSE FileGoto(r, FileIdle)
    /\ UNCHANGED <<objects, files, logo, drawn, troubled, retired>>

\* deleteFileByUrl with the document's key; that there is no file is ignored.
FindFile(r) ==
    LET q == fileReq[r] IN
    /\ FileAt(r, "findFile")
    /\ FileGoto(r, IF q.key \in files THEN Deleting(q, q.key) ELSE FileIdle)
    /\ UNCHANGED <<fsTables, drawn, troubled, retired>>

-----------------------------------------------------------------------------
(* SiteSettingsService.updateSettings, for a new logo or none; a new title   *)
(* alone leaves the logo                                                     *)

ClearLogo(r) == FileStart(r, [FileIdle EXCEPT !.pc = "readSettings", !.for = "clear"])

ReadSettings(r) ==
    LET q == fileReq[r] IN
    /\ FileAt(r, "readSettings")
    /\ FileGoto(r, [q EXCEPT !.key = logo,
                             !.pc = IF logo = Null THEN "writeSettings" ELSE "removeOld"])
    /\ UNCHANGED <<fsTables, drawn, troubled, retired>>

\* removeReplacedLogo: from the bucket, and under the key that the URL spells;
\* a failure is logged.
RemoveOld(r) ==
    LET k == KeyOf(fileReq[r].key, TRUE) IN
    /\ FileAt(r, "removeOld")
    /\ \/ objects' = objects \ {k} /\ retired' = retired \cup ({k} \ {Null})
       \/ Faults /\ UNCHANGED <<objects, retired>>
    /\ FileAwait(r, "writeSettings")
    /\ UNCHANGED <<files, docKeys, logo, drawn, troubled>>

NewLogo(q) == IF q.for = "clear" THEN Null ELSE CHOOSE k \in q.keys : TRUE
WriteSettings(r) ==
    /\ FileAt(r, "writeSettings")
    /\ logo' = NewLogo(fileReq[r])
    /\ FileGoto(r, FileIdle)
    /\ UNCHANGED <<objects, files, docKeys, drawn, troubled, retired>>

-----------------------------------------------------------------------------

\* The other calls: the request ends, and leaves what it has done.
FileReject(r) ==
    LET q == fileReq[r] IN
    /\ Faults
    /\ q.pc \in {"deleteObject", "deleteRow", "deleteDocument", "findFile",
                 "readSettings", "writeSettings"}
    /\ troubled' = troubled \cup q.keys \cup ({q.key} \ {Null})
    /\ FileGoto(r, FileIdle)
    /\ UNCHANGED <<fsTables, drawn, retired>>

FSNext ==
    \/ \E r \in Reqs :
         \/ \E n \in 1 .. MaxBatch : Upload(r, n)
         \/ \E k \in ObjectKeys :
              DeleteFile(r, k) \/ \E isUrl \in BOOLEAN : DeleteFileByUrl(r, k, isUrl)
         \/ \E d \in Docs : FindDocument(r, d)
         \/ UploadLogo(r) \/ ClearLogo(r)
         \/ StoreObject(r) \/ InsertFile(r) \/ Sign(r) \/ FailUpload(r) \/ Cleanup(r)
         \/ DeleteObject(r) \/ DeleteRow(r) \/ DeleteDocument(r) \/ FindFile(r)
         \/ ReadSettings(r) \/ RemoveOld(r) \/ WriteSettings(r)
         \/ FileReject(r)
    \/ \E d \in Docs, k \in ObjectKeys : AttachDocument(d, k)

FSSpec == FSInit /\ [][FSNext]_fsVars

-----------------------------------------------------------------------------

FSTypeOK ==
    /\ objects \subseteq drawn /\ files \subseteq drawn /\ drawn \subseteq ObjectKeys
    /\ docKeys \in Table(Docs, drawn) /\ logo \in drawn \cup {Null}
    /\ fileReq \in [Reqs ->
         [pc : {"idle", "store", "insert", "sign", "cleanup", "deleteObject",
                "deleteRow", "deleteDocument", "findFile", "readSettings",
                "removeOld", "writeSettings"},
          left : 0 .. MaxBatch, keys : SUBSET drawn, key : drawn \cup {Null},
          for : {"answer", "logo", "clear"}, doc : Docs \cup {Null}]]
    /\ troubled \subseteq drawn /\ retired \subseteq drawn

InHand(k) == \E r \in Reqs : k \in fileReq[r].keys \cup {fileReq[r].key}

\* At rest the bucket and the table File hold the same keys, and the logo of
\* the site is one of them, whatever uploads and deletions overlapped; except
\* keys that a failed request had in hand, and logos that were replaced, whose
\* rows stay.
StoresAgree ==
    /\ \A k \in ObjectKeys \ (troubled \cup retired) :
         ~InHand(k) => (k \in files <=> k \in objects)
    /\ logo \in files \ troubled /\ ~InHand(logo) => logo \in objects
=============================================================================
