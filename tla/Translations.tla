---------------------------- MODULE Translations ----------------------------
(***************************************************************************)
(* shared/i18n: the messages of the API in several languages.  The files   *)
(* are read once, by the first goroutine that needs a message, and every   *)
(* other one waits for it (sync.Once); what cannot be read then is missing *)
(* until the process restarts.  Texts are never written afterwards.        *)
(***************************************************************************)
EXTENDS Naturals, Sequences

CONSTANTS
    Request,        \* the goroutines that ask for messages: requests
    Tag,            \* language tags as clients send them; "" = none sent
    Prefix,         \* the first two letters of each tag, in lower case
    Key,            \* the message keys, the strings that look like one
    Text,           \* the messages themselves
    Files,          \* the translation files, in the order they are read
    FaultyFiles,    \* whether a file may be unreadable or not be JSON
    Null            \* nobody

DefaultLang == "en"

SupportedLangs == {"en", "vi", "th", "zh", "id"}

NoText == ""

(* A file holds a text, possibly an empty one, for some keys of a language. *)
ASSUME FilesAssumption ==
    /\ Files \in Seq([lang : SupportedLangs, texts : UNION {[S -> Text \cup {NoText}] : S \in SUBSET Key}])
    /\ FaultyFiles \in BOOLEAN

ASSUME TagAssumption ==
    /\ SupportedLangs \cup {""} \subseteq Tag
    /\ Prefix \in [Tag -> STRING]
    /\ Prefix[""] = ""
    /\ \A lang \in SupportedLangs : Prefix[lang] = lang

ASSUME NobodyAssumption == Null \notin Request

VARIABLES
    catalog,    \* the text of each key in each language, NoText where there is none
    filesRead,  \* how many files have been dealt with
    loader,     \* the goroutine inside loadOnce.Do, or Null
    loaded      \* loadOnce is done

catalogVars == <<catalog, filesRead, loader, loaded>>

-----------------------------------------------------------------------------
Normalize(tag) ==
    IF Prefix[tag] \in SupportedLangs THEN Prefix[tag] ELSE DefaultLang

(* Accept-Language is a list; only its first entry counts, whatever its weight. *)
FromAcceptLanguage(header) ==
    IF header = <<>> THEN DefaultLang ELSE Normalize(Head(header))

(* The text in the language, else in English, else the key itself. *)
TranslateText(lang, key) ==
    IF key \notin Key THEN key
    ELSE IF catalog[key][lang] # NoText THEN catalog[key][lang]
    ELSE IF catalog[key][DefaultLang] # NoText THEN catalog[key][DefaultLang]
    ELSE key

CatalogInit ==
    /\ catalog = [k \in Key |-> [l \in SupportedLangs |-> NoText]]
    /\ filesRead = 0
    /\ loader = Null
    /\ loaded = FALSE

(* Definitions named Bug... are the mutants of the definition that follows
   them: what a plausible mistake there would say.  Nothing uses them. *)

BugDoneFirst(r) ==
    /\ ~loaded
    /\ loader = Null
    /\ loader' = r
    /\ loaded' = TRUE
    /\ UNCHANGED <<catalog, filesRead>>

(* ensureLoaded: the first to come runs the function, the others wait. *)
BeginLoad(r) ==
    /\ ~loaded
    /\ loader = Null
    /\ loader' = r
    /\ UNCHANGED <<catalog, filesRead, loaded>>

BugForgetsTheLanguage(file) ==
    [k \in Key |-> IF k \in DOMAIN file.texts
                   THEN [catalog[k] EXCEPT ![DefaultLang] = file.texts[k]]
                   ELSE catalog[k]]

(* loadFile: what the file says replaces what earlier files said. *)
WithFile(file) ==
    [k \in Key |-> IF k \in DOMAIN file.texts
                   THEN [catalog[k] EXCEPT ![file.lang] = file.texts[k]]
                   ELSE catalog[k]]

LoadFile(r) ==
    /\ loader = r
    /\ filesRead < Len(Files)
    /\ \/ catalog' = WithFile(Files[filesRead + 1])
       \/ FaultyFiles /\ UNCHANGED catalog
    /\ filesRead' = filesRead + 1
    /\ UNCHANGED <<loader, loaded>>

BugNeverDone(r) ==
    /\ loader = r
    /\ filesRead = Len(Files)
    /\ loader' = r
    /\ UNCHANGED <<catalog, filesRead, loaded>>

EndLoad(r) ==
    /\ loader = r
    /\ filesRead = Len(Files)
    /\ loader' = Null
    /\ loaded' = TRUE
    /\ UNCHANGED <<catalog, filesRead>>

Catalog == [Key -> [SupportedLangs -> Text \cup {NoText}]]

CatalogTypeOK ==
    /\ catalog \in Catalog
    /\ filesRead \in 0..Len(Files)
    /\ loader \in Request \cup {Null}
    /\ loaded \in BOOLEAN
    /\ loaded => loader = Null /\ filesRead = Len(Files)
=============================================================================
