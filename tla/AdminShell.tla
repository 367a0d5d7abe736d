------------------------------ MODULE AdminShell ------------------------------
(***************************************************************************)
(* The frame around every admin console page: LanguageProvider            *)
(* (lib/i18n/language-context.tsx, mounted once per full load by          *)
(* components/providers.tsx), the admin layout's checkAuth that mounts    *)
(* AdminSidebar and AdminHeader, the header's language menu and the       *)
(* sidebar's collapsible "Settings" group.                                 *)
(*                                                                         *)
(* The language lives twice: the provider's useState and the              *)
(* localStorage entry "golink-language", which a full load reads back in  *)
(* the provider's mount effect. expandedItems holds the labels of the     *)
(* open groups; the only group with children is Settings, whose label is  *)
(* t("admin.sidebar.settings") in the current language.                    *)
(***************************************************************************)
CONSTANTS
    NoSaved,      \* localStorage.getItem returns null
    OtherSaved    \* any other string left under the key

VARIABLES
    language,       \* LanguageProvider: useState<Language>("en")
    saved,          \* localStorage "golink-language"
    effectRan,      \* the provider's mount effect has run
    shellMounted,   \* checkAuth accepted an admin: sidebar and header shown
    expandedItems   \* AdminSidebar: labels of the expanded groups

shellVars == <<language, saved, effectRan, shellMounted, expandedItems>>

Language == {"en", "vi"}
SavedValues == Language \cup {NoSaved, OtherSaved}

(* translations["admin.sidebar.settings"] *)
SettingsLabel == [en |-> "Settings", vi |-> "Cai dat"]  \* Vietnamese, written without diacritics
Labels == {SettingsLabel[l] : l \in Language}

(* What the mount effect makes of a stored value: a valid language, else  *)
(* the useState default.                                                   *)
Restored(s) == IF s \in Language THEN s ELSE "en"

ShellTypeOK ==
    /\ language \in Language /\ saved \in SavedValues
    /\ effectRan \in BOOLEAN /\ shellMounted \in BOOLEAN
    /\ expandedItems \subseteq Labels

(* A full load: the provider renders with "en"; whatever an earlier       *)
(* session left in localStorage is still there.                            *)
ShellInit ==
    /\ language = "en" /\ saved \in SavedValues
    /\ effectRan = FALSE /\ shellMounted = FALSE
    /\ expandedItems = {}

(* The provider's useEffect(..., []): setLanguage(saved) if it is "en" or *)
(* "vi". It runs right after the first commit, before any later task.      *)
ProviderMountEffect ==
    /\ ~effectRan
    /\ effectRan' = TRUE
    /\ language' = Restored(saved)
    /\ UNCHANGED <<saved, shellMounted, expandedItems>>

(* The admin layout's checkAuth answers with an admin (a network answer,  *)
(* so after the mount effect): AdminSidebar mounts with                   *)
(* useState(["Settings"]), the English label, whatever the language.       *)
ShellMount ==
    /\ effectRan /\ ~shellMounted
    /\ shellMounted' = TRUE
    /\ expandedItems' = {SettingsLabel.en}
    /\ UNCHANGED <<language, saved, effectRan>>

(* The header's language menu: the context's setLanguage is               *)
(* handleSetLanguage, which sets the state and writes localStorage.       *)
handleSetLanguage(l) ==
    /\ shellMounted
    /\ language' = l /\ saved' = l
    /\ UNCHANGED <<effectRan, shellMounted, expandedItems>>

(* The Settings button: toggleExpand(item.name) with the label rendered   *)
(* in the current language, removing it if present, else appending it.    *)
toggleExpand ==
    LET name == SettingsLabel[language] IN
    /\ shellMounted
    /\ expandedItems' = IF name \in expandedItems
                        THEN expandedItems \ {name}
                        ELSE expandedItems \cup {name}
    /\ UNCHANGED <<language, saved, effectRan, shellMounted>>

ShellNext ==
    \/ ProviderMountEffect \/ ShellMount
    \/ \E l \in Language : handleSetLanguage(l)
    \/ toggleExpand

====
