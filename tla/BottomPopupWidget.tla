-------------------------- MODULE BottomPopupWidget --------------------------
(***************************************************************************)
(* The client's bottom popup: a dialog with a mask and one animation, that  *)
(* slides a popup in and out.  QAbstractAnimation is external: start() does *)
(* nothing while it runs, so that a popup hidden while it still slides in,  *)
(* or shown while it slides out, shares one finished() with the call        *)
(* before.                                                                  *)
(***************************************************************************)

CONSTANTS
  Popups,        (* The widgets that are given to showPopup.                 *)
  Inner,         (* The widget the constructor makes.                        *)
  nullptr

ASSUME PopupAssumption == Inner \notin Popups /\ nullptr \notin Popups \union {Inner}

VARIABLES
  m_popup,       (* The popup that is shown, Inner at first.                 *)
  m_show,        (* Whether it is to be seen.                                *)
  visible,       (* The popups that are not hidden.                          *)
  dialogVisible, (* The dialog and its mask are visible.                     *)
  animating      (* m_animation is running.                                  *)

popupVars == <<m_popup, m_show, visible, dialogVisible, animating>>

PopupInit ==
  /\ m_popup = Inner /\ m_show = FALSE
  /\ visible = {} /\ dialogVisible = FALSE /\ animating = FALSE

start == animating' = TRUE

showPopup(popup) ==
  /\ m_popup' = popup /\ m_show' = TRUE
  /\ visible' = visible \union {popup} /\ dialogVisible' = TRUE
  /\ start

(* By a click on the mask, or a call; also before anything was shown. *)
hidePopup ==
  /\ m_popup # nullptr /\ m_show' = FALSE
  /\ start
  /\ UNCHANGED <<m_popup, visible, dialogVisible>>

(* Wrong variant: every end of the animation hides the popup. *)
finished_Always ==
  /\ animating /\ animating' = FALSE
  /\ visible' = visible \ {m_popup} /\ m_popup' = nullptr /\ dialogVisible' = FALSE
  /\ UNCHANGED m_show

finished ==
  /\ animating /\ animating' = FALSE
  /\ IF m_show THEN UNCHANGED <<visible, m_popup, dialogVisible>>
     ELSE visible' = visible \ {m_popup} /\ m_popup' = nullptr /\ dialogVisible' = FALSE
  /\ UNCHANGED m_show

PopupNext == finished \/ hidePopup \/ \E popup \in Popups : showPopup(popup)

-----------------------------------------------------------------------------

PopupTypeOK ==
  /\ m_popup \in Popups \union {Inner, nullptr}
  /\ visible \in SUBSET Popups
  /\ {m_show, dialogVisible, animating} \subseteq BOOLEAN

(* However calls to show and hide follow each other while the one animation
   runs: what is to be seen is, what is to be hidden either is or has an
   animation whose end will hide it, and no end finds m_popup null, which
   finished dereferences. *)
PopupSettles ==
  /\ m_show => dialogVisible /\ m_popup \in visible
  /\ ~m_show /\ dialogVisible => animating
  /\ m_popup = nullptr => ~animating /\ ~dialogVisible
=============================================================================
