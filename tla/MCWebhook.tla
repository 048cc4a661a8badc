----------------------------- MODULE MCWebhook -----------------------------
EXTENDS Webhook

CONSTANTS c1, s1

\* A user sets the step, beyond the steps in all, and has the document pending again.
MCBodies == {[NoEdit EXCEPT !.step = 2, !.total = 1]}
=============================================================================
