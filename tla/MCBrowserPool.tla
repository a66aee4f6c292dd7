---------------------------- MODULE MCBrowserPool ----------------------------
\* Instances of BrowserPool for TLC; the .cfg files give every constant model values.
EXTENDS BrowserPool
=============================================================================
