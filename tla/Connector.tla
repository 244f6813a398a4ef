----------------------------- MODULE Connector -----------------------------
(***************************************************************************)
(* Barry::Connector and DesktopConnector (src/src/connector.cc): connect,  *)
(* ask for passwords, try again after a timeout.  The object is a record,  *)
(* and an operation gives the set of the results it may have.  The device  *)
(* is a record [locked, left]: whether it has a password, and how many     *)
(* tries it still grants (it erases itself when there are none).           *)
(***************************************************************************)
EXTENDS Naturals

CONSTANTS Right,         \* the password of a locked device
          NoPassword,    \* the empty string
          MaxTries,      \* tries that a locked device grants
          MinTries       \* BARRY_MIN_PASSWORD_TRIES

(* m_password, whether m_con and m_desktop exist, m_connect_count (only
   whether it is 0 matters), and the loops' state: the tries Reconnect has
   left and whether StartConnect was called.  m_needs_reconnect, which only
   the 0.4x plugin uses, is a variable of Plugin04. *)
NewConnector(pw) ==
    [password |-> pw, objects |-> FALSE, connected |-> FALSE,
     tries |-> 0, started |-> FALSE]

(* Disconnect. *)
Disconnect(c) == [c EXCEPT !.objects = FALSE]

(* The head of the loop in Reconnect and of Connect. *)
NextTry(c) == [Disconnect(c) EXCEPT !.tries = @ - 1, !.started = FALSE]
Reconnect(c, total) == NextTry([c EXCEPT !.tries = total])

(* Mutant: the tries that are left are not looked at. *)
Answer_always(c, dev) == IF ~dev.locked \/ c.password = Right THEN "accepts" ELSE "rejects"
(* What the device says to StartConnect or RetryPassword: the string is sent
   as a hash even when it is empty, for it is never a null pointer. *)
Answer(c, dev) ==
    IF ~dev.locked THEN "accepts"
    ELSE IF dev.left < MinTries THEN "out_of_tries"
    ELSE IF c.password = Right THEN "accepts" ELSE "rejects"

(* The device after that. *)
Charged(c, dev) ==
    CASE Answer(c, dev) = "accepts" -> [dev EXCEPT !.left = MaxTries]
      [] Answer(c, dev) = "rejects" -> [dev EXCEPT !.left = @ - 1]
      [] OTHER -> dev

(* One turn of the loop in Connect: StartConnect, or RetryPassword after a
   prompt.  ret is "true", "prompt" (PasswordPrompt is called next) or
   "throw". *)
Attempt(c, dev) ==
    LET tried == [c EXCEPT !.started = TRUE, !.objects = TRUE] IN
    CASE Answer(c, dev) = "accepts" ->
           [obj |-> [tried EXCEPT !.connected = TRUE], dev |-> Charged(c, dev), ret |-> "true"]
      [] Answer(c, dev) = "rejects" ->
           [obj |-> [tried EXCEPT !.password = NoPassword], dev |-> Charged(c, dev),
            ret |-> "prompt"]
      [] OTHER -> [obj |-> tried, dev |-> dev, ret |-> "throw"]

(* A turn in which Usb::Timeout is thrown, before the device has looked at
   the password or after it: Reconnect takes its next try. *)
TimedOut(c, dev) ==
    {[obj |-> IF c.tries = 0 THEN [c EXCEPT !.objects = TRUE] ELSE NextTry(c),
      dev |-> d, ret |-> IF c.tries = 0 THEN "throw" ELSE "again"] :
        d \in {dev, Charged(c, dev)}}

(* After a prompt.  A blank password means that the user wants out. *)
Typed(c, pw) == [c EXCEPT !.password = pw]
=============================================================================
