-------------------------- MODULE ShortenerWidget --------------------------
(***************************************************************************)
(* components/shared/url-shortener-widget.tsx on the landing page, with   *)
(* LinkService.quickCreate (lib/api/services/link.service.ts). Every      *)
(* quickCreate resolves after the same 800 ms, so its calls answer in the *)
(* order they were made; so do the 2 s timers of handleCopy. The short    *)
(* code is always generateShortCode()'s, so the short URL shown is        *)
(* "golink.io/" followed by Generated, or "" while the input is shown.    *)
(***************************************************************************)
EXTENDS Naturals, Sequences

CONSTANTS Urls, ValidUrls, Generated, Empty,
          MaxPending   \* quickCreate calls, and copy timers, pending at once

VARIABLES
    wUrl,         \* url: the input
    shortUrl,     \* Generated once a result is shown, else Empty
    wLoading,     \* isLoading: disables the Shorten button
    isCopied,
    wCalls,       \* quickCreate calls in flight: the url each was made for
    copyTimers    \* handleCopy timers pending

widgetVars == <<wUrl, shortUrl, wLoading, isCopied, wCalls, copyTimers>>

TypeOK ==
    /\ wUrl \in Urls \cup {Empty} /\ shortUrl \in {Generated, Empty}
    /\ wLoading \in BOOLEAN /\ isCopied \in BOOLEAN
    /\ wCalls \in Seq(ValidUrls) /\ copyTimers \in 0..MaxPending

(* The useState initialisers; the timers of an earlier page are gone.     *)
Mounted ==
    /\ wUrl' = Empty /\ shortUrl' = Empty /\ wLoading' = FALSE
    /\ isCopied' = FALSE /\ wCalls' = << >> /\ copyTimers' = 0

Init ==
    /\ wUrl = Empty /\ shortUrl = Empty /\ wLoading = FALSE
    /\ isCopied = FALSE /\ wCalls = << >> /\ copyTimers = 0

(* Typing into the input, shown while no result is. *)
TypeWidgetUrl(u) ==
    /\ shortUrl = Empty /\ wUrl' = u
    /\ UNCHANGED <<shortUrl, wLoading, isCopied, wCalls, copyTimers>>

(* handleShorten from the button (disabled while isLoading or with an    *)
(* empty input) or from Enter in the input, which no isLoading guards.    *)
(* An empty or unparsable URL only raises a toast.                         *)
HandleShorten(via) ==
    /\ shortUrl = Empty
    /\ via = "button" => ~wLoading /\ wUrl # Empty
    /\ wUrl \in ValidUrls /\ Len(wCalls) < MaxPending
    /\ wLoading' = TRUE /\ wCalls' = Append(wCalls, wUrl)
    /\ UNCHANGED <<wUrl, shortUrl, isCopied, copyTimers>>

(* The answer without handleShorten's finally. *)
QuickCreateAnswerNoFinally ==
    /\ wCalls # << >> /\ wCalls' = Tail(wCalls)
    /\ Head(wCalls) \in ValidUrls
    /\ shortUrl' = Generated
    /\ UNCHANGED <<wUrl, wLoading, isCopied, copyTimers>>

(* The 800 ms timer of the oldest call: quickCreate parses the URL again  *)
(* (it was checked, so this succeeds) and answers the generated code;     *)
(* setShortUrl, then finally setIsLoading(false), whatever other call is  *)
(* still in flight.                                                        *)
QuickCreateAnswer ==
    /\ wCalls # << >> /\ wCalls' = Tail(wCalls)
    /\ IF Head(wCalls) \in ValidUrls THEN shortUrl' = Generated
       ELSE UNCHANGED shortUrl
    /\ wLoading' = FALSE
    /\ UNCHANGED <<wUrl, isCopied, copyTimers>>

(* handleCopy: the clipboard write succeeds, setIsCopied(true) and a 2 s  *)
(* timer (a failed write only raises a toast).                             *)
HandleCopy ==
    /\ shortUrl # Empty /\ copyTimers < MaxPending
    /\ isCopied' = TRUE /\ copyTimers' = copyTimers + 1
    /\ UNCHANGED <<wUrl, shortUrl, wLoading, wCalls>>

(* The oldest copy timer: setIsCopied(false), whichever copy it was for.  *)
CopyTimerFires ==
    /\ copyTimers > 0 /\ copyTimers' = copyTimers - 1 /\ isCopied' = FALSE
    /\ UNCHANGED <<wUrl, shortUrl, wLoading, wCalls>>

(* handleReset, the button next to Copy. *)
HandleReset ==
    /\ shortUrl # Empty
    /\ wUrl' = Empty /\ shortUrl' = Empty /\ isCopied' = FALSE
    /\ UNCHANGED <<wLoading, wCalls, copyTimers>>

Next ==
    \/ \E u \in Urls \cup {Empty} : TypeWidgetUrl(u)
    \/ \E via \in {"button", "enter"} : HandleShorten(via)
    \/ QuickCreateAnswer \/ HandleCopy \/ CopyTimerFires \/ HandleReset

-----------------------------------------------------------------------------
(* The spinner of the Shorten button shows only while a quickCreate is   *)
(* in flight: the finally of handleShorten clears it with the answer.     *)
(* (The converse fails: Enter starts a call while one is in flight, and   *)
(* the first answer clears the spinner of both.)                           *)
SpinnerOnlyWhileShortening == wLoading => wCalls # << >>

====
