------------------------------- MODULE I18n --------------------------------
(***************************************************************************)
(* t() of lib/i18n/language-context.tsx and the translations it reads for *)
(* the plan features. A text is abstracted to its sequence of tokens:     *)
(* "lit" for literal words, a param name ("count", "days") for a          *)
(* {placeholder} not yet replaced, "val" for a substituted value, and     *)
(* "rawKey" for the translation key itself shown as text.                  *)
(***************************************************************************)
EXTENDS Sequences, SequencesExt

Languages == {"en", "vi"}

(* The "Pricing Features (Parameterized)" entries of `translations`. *)
Translations ==
    [links              |-> [en |-> <<"count", "lit">>, vi |-> <<"count", "lit">>],
     unlimitedLinks     |-> [en |-> <<"lit">>, vi |-> <<"lit">>],
     customDomains      |-> [en |-> <<"lit">>, vi |-> <<"lit">>],
     unlimitedDomains   |-> [en |-> <<"lit">>, vi |-> <<"lit">>],
     retention          |-> [en |-> <<"days", "lit">>,
                             vi |-> <<"lit", "days", "lit">>],
     unlimitedRetention |-> [en |-> <<"lit">>, vi |-> <<"lit">>]]

(* t(key, params): the translation in the language, else in English (an   *)
(* empty string is falsy), else the key; then each param replaces the     *)
(* first occurrence of its placeholder (String.prototype.replace with a   *)
(* string pattern).                                                        *)
t(lang, key, param) ==
    LET text == IF key \notin DOMAIN Translations THEN <<"rawKey">>
                ELSE IF Translations[key][lang] # << >> THEN Translations[key][lang]
                ELSE IF Translations[key].en # << >> THEN Translations[key].en
                ELSE <<"rawKey">>
    IN IF param = "none" THEN text
       ELSE ReplaceFirstSubSeq(<<"val">>, <<param>>, text)

(* The text shown reads as a sentence: translated, every placeholder      *)
(* filled.                                                                 *)
Rendered(text) == \A i \in DOMAIN text : text[i] \in {"lit", "val"}

====
