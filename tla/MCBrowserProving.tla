-------------------------- MODULE MCBrowserProving -------------------------
EXTENDS BrowserProving

MCSources == {"label", "voteBits"}

=============================================================================
