------------------------------ MODULE Templates ------------------------------
(***************************************************************************)
(* One DOCX template: its file in storage, the field schema that the       *)
(* editor posts, the parties and their fields, and a document made of it.  *)
(*                                                                         *)
(* OnlyOffice keeps the file: it posts a callback when the text is saved,  *)
(* the callback downloads it, stores it under a new name, saves the row    *)
(* and deletes the file that the row named when it was read.  The editor's *)
(* own form saves the schema.  Both collect template.variables anew, the   *)
(* names for which a new document gets field values.  No request locks     *)
(* anything and every save is committed by itself.                         *)
(*                                                                         *)
(* A name stands for a variable; a file is its number and has the set of   *)
(* names that its text uses.  A money field's amount can be used in words, *)
(* by names of their own, which nobody fills in.  Left out: that a field   *)
(* becomes a money field or ceases to be one, and files in the old .doc    *)
(* format, whose names are lost from the variables while they cannot be    *)
(* converted.  A DOCX file that cannot be read has no names, each time.    *)
(***************************************************************************)
EXTENDS Naturals

CONSTANTS
  TpRequests,   \* slots for requests in flight at the same time
  FileNames,    \* names the text may use
  SchemaNames,  \* names the field schema may hold
  SystemNames,  \* names of the fields every party gets (SYSTEM_PARTY_FIELDS)
  OwnNames,     \* names of further party fields
  WordsOf,      \* the names that say a money field's amount in words
  MaxFiles      \* bound on the number of files

ASSUME TpAssumption ==
  /\ MaxFiles \in Nat \ {0}
  /\ WordsOf \in [SchemaNames \cup SystemNames \cup OwnNames -> SUBSET FileNames]

VARIABLES
  tpRow,      \* the document_template row
  tpText,     \* the names each file's text uses
  tpFiles,    \* number of files made
  tpStored,   \* the files in storage
  tpParty,    \* the party row and its fields
  tpDoc,      \* the document made of the template
  tpCall,     \* what each request has read and where it stands
  tpSerial,   \* history: requests run one after the other
  tpBroken    \* history: a request broke off

tpVars == <<tpRow, tpText, tpFiles, tpStored, tpParty, tpDoc, tpCall, tpSerial,
            tpBroken>>

TpNames == FileNames \cup SchemaNames \cup SystemNames \cup OwnNames
TpFile == 1 .. MaxFiles

(* preview is the file whose HTML body_template caches, 0 for none.        *)
TpRow == [file : TpFile, schema : SUBSET SchemaNames, variables : SUBSET TpNames,
          preview : {0} \cup TpFile]

TpParty == [present : BOOLEAN, fields : SUBSET (SystemNames \cup OwnNames)]

(* fields: the names with a DocumentFieldValue; shows: the file its DOCX   *)
(* was rendered from.  made_of and complete are history: the file when the *)
(* document was made, and whether its fields were.                         *)
TpDocument == [present : BOOLEAN, fields : SUBSET TpNames, shows : {0} \cup TpFile,
               made_of : {0} \cup TpFile, complete : BOOLEAN]

TpPc == {"idle", "download", "store", "save_file", "delete_old", "save_schema",
         "save_preview", "system_fields", "create", "fields", "render"}
TpCall == [pc : TpPc, row : TpRow, text : SUBSET FileNames]

NoDocument == [present |-> FALSE, fields |-> {}, shows |-> 0, made_of |-> 0,
               complete |-> FALSE]
NoRow == [file |-> 1, schema |-> {}, variables |-> {}, preview |-> 0]
TpIdle == [pc |-> "idle", row |-> NoRow, text |-> {}]

TpTypeOK ==
  /\ tpRow \in TpRow
  /\ tpText \in [TpFile -> SUBSET FileNames]
  /\ tpFiles \in TpFile
  /\ tpStored \subseteq TpFile
  /\ tpParty \in TpParty
  /\ tpDoc \in TpDocument
  /\ tpCall \in [TpRequests -> TpCall]
  /\ tpSerial \in BOOLEAN
  /\ tpBroken \in BOOLEAN

(* prepare_uploaded_template_file has extracted the variables.             *)
TpInit ==
  /\ \E text \in SUBSET FileNames :
       /\ tpText = [f \in TpFile |-> IF f = 1 THEN text ELSE {}]
       /\ tpRow = [NoRow EXCEPT !.variables = text]
  /\ tpFiles = 1
  /\ tpStored = {1}
  /\ tpParty = [present |-> FALSE, fields |-> {}]
  /\ tpDoc = NoDocument
  /\ tpCall = [r \in TpRequests |-> TpIdle]
  /\ tpSerial \in BOOLEAN
  /\ tpBroken = FALSE

-----------------------------------------------------------------------------
TpAt(r, pc) == tpCall[r].pc = pc
TpCopy(r) == tpCall[r].row
TpGoto(r, pc) == tpCall' = [tpCall EXCEPT ![r].pc = pc]
TpReturn(r) == tpCall' = [tpCall EXCEPT ![r] = TpIdle]

MayBegin(r) ==
  /\ tpCall[r] = TpIdle
  /\ tpSerial => \A q \in TpRequests : tpCall[q] = TpIdle

(* The view reads the template's row, of which it uses a part, and goes on *)
(* at pc.                                                                  *)
TpBegin(r, pc, row) ==
  /\ MayBegin(r)
  /\ tpCall' = [tpCall EXCEPT ![r] = [TpIdle EXCEPT !.pc = pc, !.row = row]]

OnlyFile == [NoRow EXCEPT !.file = tpRow.file]

(* Mutant: as prepare_uploaded_template_file does. *)
TextOnly(text, schema) == text

(* derived_field_names_for_fields                                          *)
InWords(fields) == UNION {WordsOf[name] : name \in fields \cap DOMAIN WordsOf}

(* collect_docx_template_variables: the parties' fields are asked for now. *)
Collected(text, schema) ==
  LET fields == schema \cup tpParty.fields IN text \cup fields \cup InWords(fields)

(* template_onlyoffice_callback: the download may fail ...                 *)
BeginCallback(r) ==
  /\ TpBegin(r, "download", [OnlyFile EXCEPT !.schema = tpRow.schema])
  /\ UNCHANGED <<tpRow, tpText, tpFiles, tpStored, tpParty, tpDoc, tpSerial, tpBroken>>

Download(r) ==
  /\ TpAt(r, "download")
  /\ \/ TpReturn(r)
     \/ \E text \in SUBSET FileNames :
          tpCall' = [tpCall EXCEPT ![r].pc = "store", ![r].text = text]
  /\ UNCHANGED <<tpRow, tpText, tpFiles, tpStored, tpParty, tpDoc, tpSerial, tpBroken>>

(* Mutant: the old file is replaced before the row is saved. *)
WithReplacement(r, new) == (tpStored \cup {new}) \ {TpCopy(r).file}

(* template_file.save(save=False): the old file stays.                     *)
WithNewFile(r, new) == tpStored \cup {new}

(* ... the text is stored under a new name ...                             *)
StoreText(r) ==
  LET new == tpFiles + 1 IN
  /\ TpAt(r, "store")
  /\ new \in TpFile
  /\ tpFiles' = new
  /\ tpText' = [tpText EXCEPT ![new] = tpCall[r].text]
  /\ tpStored' = WithNewFile(r, new)
  /\ tpCall' = [tpCall EXCEPT ![r].pc = "save_file",
                  ![r].row.variables = Collected(tpCall[r].text, TpCopy(r).schema),
                  ![r].row.preview = new]
  /\ UNCHANGED <<tpRow, tpParty, tpDoc, tpSerial, tpBroken>>

(* ... the row takes file and variables, and drops the preview ...         *)
SaveFile(r) ==
  /\ TpAt(r, "save_file")
  /\ tpRow' = [tpRow EXCEPT !.file = TpCopy(r).preview, !.preview = 0,
                            !.variables = TpCopy(r).variables]
  /\ TpGoto(r, "delete_old")
  /\ UNCHANGED <<tpText, tpFiles, tpStored, tpParty, tpDoc, tpSerial, tpBroken>>

(* ... and the file it had when it was read is deleted.                    *)
DeleteOldFile(r) ==
  /\ TpAt(r, "delete_old")
  /\ tpStored' = tpStored \ {TpCopy(r).file}
  /\ TpReturn(r)
  /\ UNCHANGED <<tpRow, tpText, tpFiles, tpParty, tpDoc, tpSerial, tpBroken>>

(* template_edit and template_onlyoffice_save: variables are collected     *)
(* from the file that the row named when it was read; a file that is gone  *)
(* raises.                                                                 *)
BeginSave(r) ==
  /\ TpBegin(r, "save_schema", OnlyFile)
  /\ UNCHANGED <<tpRow, tpText, tpFiles, tpStored, tpParty, tpDoc, tpSerial, tpBroken>>

SaveSchema(r) ==
  /\ TpAt(r, "save_schema")
  /\ IF TpCopy(r).file \in tpStored
     THEN \E schema \in SUBSET SchemaNames :
            tpRow' = [tpRow EXCEPT !.schema = schema,
                        !.variables = Collected(tpText[TpCopy(r).file], schema)]
     ELSE UNCHANGED tpRow
  /\ TpReturn(r)
  /\ UNCHANGED <<tpText, tpFiles, tpStored, tpParty, tpDoc, tpSerial, tpBroken>>

(* get_template_preview_html converts the file and caches the result.      *)
BeginPreview(r) ==
  /\ TpBegin(r, "save_preview", OnlyFile)
  /\ tpRow.preview = 0
  /\ UNCHANGED <<tpRow, tpText, tpFiles, tpStored, tpParty, tpDoc, tpSerial, tpBroken>>

SavePreview(r) ==
  /\ TpAt(r, "save_preview")
  /\ tpRow' = IF TpCopy(r).file \in tpStored
              THEN [tpRow EXCEPT !.preview = TpCopy(r).file] ELSE tpRow
  /\ TpReturn(r)
  /\ UNCHANGED <<tpText, tpFiles, tpStored, tpParty, tpDoc, tpSerial, tpBroken>>

-----------------------------------------------------------------------------
(* template_party_create; the post_save signal adds the system fields.     *)
CreateParty(r) ==
  /\ TpBegin(r, "system_fields", NoRow)
  /\ ~tpParty.present
  /\ tpParty' = [present |-> TRUE, fields |-> {}]
  /\ UNCHANGED <<tpRow, tpText, tpFiles, tpStored, tpDoc, tpSerial, tpBroken>>

CreateSystemFields(r) ==
  /\ TpAt(r, "system_fields")
  /\ tpParty' = IF tpParty.present THEN [tpParty EXCEPT !.fields = @ \cup SystemNames]
                ELSE tpParty
  /\ TpReturn(r)
  /\ UNCHANGED <<tpRow, tpText, tpFiles, tpStored, tpDoc, tpSerial, tpBroken>>

(* Party and field requests of one statement: none of them collects the    *)
(* template's variables again.                                             *)
PartyRequest(r) ==
  /\ MayBegin(r)
  /\ tpParty.present
  /\ \/ \E name \in OwnNames \ tpParty.fields :
          tpParty' = [tpParty EXCEPT !.fields = @ \cup {name}]
     \/ \E name \in OwnNames \cap tpParty.fields :
          tpParty' = [tpParty EXCEPT !.fields = @ \ {name}]
     \/ tpParty' = [present |-> FALSE, fields |-> {}]
  /\ UNCHANGED <<tpRow, tpText, tpFiles, tpStored, tpDoc, tpCall, tpSerial, tpBroken>>

-----------------------------------------------------------------------------
(* document_create_from_template saves the document, then                  *)
(* create_field_values_for_template gives it its fields, one by one.       *)
BeginDocument(r) ==
  /\ TpBegin(r, "create", tpRow)
  /\ ~tpDoc.present
  /\ UNCHANGED <<tpRow, tpText, tpFiles, tpStored, tpParty, tpDoc, tpSerial, tpBroken>>

CreateDocument(r) ==
  /\ TpAt(r, "create")
  /\ ~tpDoc.present
  /\ tpDoc' = [NoDocument EXCEPT !.present = TRUE, !.made_of = TpCopy(r).file]
  /\ TpGoto(r, "fields")
  /\ UNCHANGED <<tpRow, tpText, tpFiles, tpStored, tpParty, tpSerial, tpBroken>>

(* Mutant: the loop over template.variables is lost. *)
FieldsOfSchema(row) == row.schema \cup tpParty.fields

(* No field for what an amount is in words.                                *)
FieldsOf(row) ==
  LET fields == row.schema \cup tpParty.fields
  IN (row.variables \ InWords(fields)) \cup fields

CreateFieldValues(r) ==
  /\ TpAt(r, "fields")
  /\ tpDoc' = [tpDoc EXCEPT !.fields = FieldsOf(TpCopy(r)), !.complete = TRUE]
  /\ TpReturn(r)
  /\ UNCHANGED <<tpRow, tpText, tpFiles, tpStored, tpParty, tpSerial, tpBroken>>

(* document_fill takes the fields the document has, and DocxRender fills   *)
(* the file of the template as the view read it.                           *)
BeginFill(r) ==
  /\ TpBegin(r, "render", OnlyFile)
  /\ tpDoc.present
  /\ UNCHANGED <<tpRow, tpText, tpFiles, tpStored, tpParty, tpDoc, tpSerial, tpBroken>>

RenderDocument(r) ==
  /\ TpAt(r, "render")
  /\ tpDoc' = IF TpCopy(r).file \in tpStored
              THEN [tpDoc EXCEPT !.shows = TpCopy(r).file] ELSE tpDoc
  /\ TpReturn(r)
  /\ UNCHANGED <<tpRow, tpText, tpFiles, tpStored, tpParty, tpSerial, tpBroken>>

(* The web server dies, or the database or the storage fails.              *)
TpBreakOff(r) ==
  /\ tpCall[r] # TpIdle
  /\ TpReturn(r)
  /\ tpBroken' = TRUE
  /\ UNCHANGED <<tpRow, tpText, tpFiles, tpStored, tpParty, tpDoc, tpSerial>>

TpNext ==
  \E r \in TpRequests :
    \/ BeginCallback(r) \/ Download(r) \/ StoreText(r) \/ SaveFile(r) \/ DeleteOldFile(r)
    \/ BeginSave(r) \/ SaveSchema(r) \/ BeginPreview(r) \/ SavePreview(r)
    \/ CreateParty(r) \/ CreateSystemFields(r) \/ PartyRequest(r)
    \/ BeginDocument(r) \/ CreateDocument(r) \/ CreateFieldValues(r)
    \/ BeginFill(r) \/ RenderDocument(r)
    \/ TpBreakOff(r)

TpSpec == TpInit /\ [][TpNext]_tpVars

-----------------------------------------------------------------------------
(* The row always names a file that is in storage, although two callbacks  *)
(* that overlap both delete the file that the row named when they read it  *)
(* (documents/views.py:930-952).                                           *)
TemplateFileExists == tpRow.file \in tpStored

(* Requests that do not overlap leave variables that cover the text and    *)
(* the schema, whichever was saved last, a preview of the present file,    *)
(* and, when none of them broke off, no other file                         *)
(* (documents/views.py:227-244, 298-309, 930-952, 971-981).                *)
LoneRequestsAgree ==
  tpSerial /\ (\A r \in TpRequests : tpCall[r] = TpIdle) =>
    /\ tpText[tpRow.file] \cup tpRow.schema \subseteq tpRow.variables
    /\ tpRow.preview \in {0, tpRow.file}
    /\ ~tpBroken => tpStored = {tpRow.file}

(* A document is rendered with a field for every name in the text, or for  *)
(* the amount it says in words, where requests do not overlap, its         *)
(* creation was not broken off and the text is the one it was made of      *)
(* (documents/views.py:176-215, 1363).                                     *)
RenderedNamesHaveFields ==
  tpSerial /\ tpDoc.complete /\ tpDoc.shows = tpDoc.made_of =>
    tpText[tpDoc.shows] \subseteq tpDoc.fields \cup InWords(tpDoc.fields)
=============================================================================
