----------------------------- MODULE MCDemoPage -----------------------------
\* A small instance of DemoPage: at most two licenses per hour, four clicks, a
\* performance test of two licenses.
EXTENDS DemoPage
=============================================================================
