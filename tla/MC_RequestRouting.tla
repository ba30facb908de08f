-------------------------- MODULE MC_RequestRouting --------------------------
\* The request/response routing of one client endpoint alone, for the run
\* that places an observer on a worker that neither calls nor runs the rx task.
EXTENDS RequestRouting
=============================================================================
