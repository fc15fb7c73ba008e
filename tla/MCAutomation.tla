---------------------------- MODULE MCAutomation ----------------------------
EXTENDS AutomationManager
=============================================================================
